---------------------------- MODULE Spec2Model ----------------------------
(***************************************************************************)
(* Model of the league standings engine of pp_consulta (app/parser.py):    *)
(* the spreadsheet cells it reads, the column layout it infers, the match  *)
(* tally, the per-division table, the award schedule and the general       *)
(* (historic) table, with the LeagueData object's memoised tables as the   *)
(* program state; of the readers of the notification bots (app/extras.py,  *)
(* app/bot_matches.py, app/bot_matchesT6.py); and of the approval of a     *)
(* submitted result (app/submissions.py), whose requests run step by step  *)
(* over the queue files and the results workbook.                          *)
(***************************************************************************)
EXTENDS Integers, Sequences, FiniteSets, TLC

VARIABLES
    resultados,          \* data dir: season number -> "RESULTADOS T<n>" workbook
    jugadores,           \* data dir: season number -> "JUGADORES T<n>" workbook
    _season_names,       \* LeagueData._season_names
    _players_by_season,  \* LeagueData._players_by_season (memo, by season label)
    _results_by_season,  \* LeagueData._results_by_season (memo, by season label)
    resp,                \* the value returned by the last call
    PENDING_FILE,        \* submissions.py: pending_submissions.json
    APPROVED_FILE,       \* submissions.py: approved_submissions.json
    requests             \* the admin_approve requests in flight, with their locals

vars == <<resultados, jugadores, _season_names, _players_by_season,
          _results_by_season, resp, PENDING_FILE, APPROVED_FILE, requests>>

(***************************************************************************)
(* Bounds of the model.                                                    *)
(***************************************************************************)
MaxRows == 2        \* rows of a results sheet (Spec)
MaxCol == 2         \* names in one roster column
MaxRowsGeneral == 1 \* rows of the newest results sheet (SpecGeneral)
MaxPos == 40        \* largest rank handed to puntos_pos (SpecAward)
MaxHalf == 3        \* largest score, in halves of a point (SpecTally)

(***************************************************************************)
(* Spreadsheet cells.  A cell is what pandas hands over: pd.NA, a number   *)
(* (n counts halves of a point, so 13 is 6.5), a string, a datetime.time   *)
(* or a pd.Timestamp.  None is Python's None (an index past the row).      *)
(***************************************************************************)
NA == [k |-> "na", n |-> 0, s |-> ""]
None == [k |-> "none", n |-> 0, s |-> ""]
Num(h) == [k |-> "num", n |-> h, s |-> ""]
Txt(t) == [k |-> "str", n |-> 0, s |-> t]
TimeCell(m) == [k |-> "time", n |-> m, s |-> ""]
DateCell(d) == [k |-> "ts", n |-> d, s |-> ""]

\* row.iloc[i] if i < len(row) else None   (i is 0-based)
CellAt(row, i) == IF i < Len(row) THEN row[i + 1] ELSE None

(***************************************************************************)
(* Strings.  TLC cannot take a string apart, so the strings the model uses *)
(* carry their code points in a table; comparison, length and lower-casing *)
(* are computed on the code points as Python computes them.                *)
(***************************************************************************)
RECURSIVE Digits(_)
Digits(n) == IF n < 10 THEN <<48 + n>> ELSE Digits(n \div 10) \o <<48 + (n % 10)>>

\* date.isoformat() / strftime("%Y-%m-%d") of day d of January 2025
IsoDate(d) == "2025-01-0" \o ToString(d)
Days == 1..9

\* the code points of "División ", of "2025-01-0" and of "Temporada "
DivisionCp == <<68, 105, 118, 105, 115, 105, 243, 110, 32>>
IsoCp == <<50, 48, 50, 53, 45, 48, 49, 45, 48>>

TemporadaCp == <<84, 101, 109, 112, 111, 114, 97, 100, 97, 32>>

CodePoints(s) ==
    CASE s = "ana" -> <<97, 110, 97>>
      [] s = "Bob" -> <<66, 111, 98>>
      [] s = "Cara" -> <<67, 97, 114, 97>>
      [] s = "bob" -> <<98, 111, 98>>
      [] s = "cara" -> <<99, 97, 114, 97>>
      [] s = "nan" -> <<110, 97, 110>>
      [] s = "" -> <<>>
      [] s = "División 1" -> DivisionCp \o <<49>>
      [] s = "División 2" -> DivisionCp \o <<50>>
      [] s = "División 3" -> DivisionCp \o <<51>>
      [] s = "División 3 - A" -> DivisionCp \o <<51, 32, 45, 32, 65>>
      [] s = "División 3 - B" -> DivisionCp \o <<51, 32, 45, 32, 66>>
      [] s = "División 4 - A" -> DivisionCp \o <<52, 32, 45, 32, 65>>
      [] s = "División 4 - B" -> DivisionCp \o <<52, 32, 45, 32, 66>>
      [] s = "División ?" -> DivisionCp \o <<63>>
      [] s = "Desconocida" -> <<68, 101, 115, 99, 111, 110, 111, 99, 105, 100, 97>>
      [] s = "09:00" -> <<48, 57, 58, 48, 48>>
      [] s = "9:00" -> <<57, 58, 48, 48>>
      [] s = "09:00:00" -> <<48, 57, 58, 48, 48, 58, 48, 48>>
      [] s = "1:2:x" -> <<49, 58, 50, 58, 120>>
      [] s = "12:x" -> <<49, 50, 58, 120>>
      [] s = "a:b" -> <<97, 58, 98>>
      [] s = ":" -> <<58>>
      [] s = "1.5" -> <<49, 46, 53>>
      [] s = "Liga" -> <<76, 105, 103, 97>>
      [] s \in {"m" \o ToString(n) : n \in 0..3} ->
            <<109, 48 + (CHOOSE n \in 0..3 : "m" \o ToString(n) = s)>>
      [] s = "A+B" -> <<65, 43, 66>>
      [] s = "A B" -> <<65, 32, 66>>
      [] s \in {"Temporada " \o ToString(n) : n \in {5, 6, 9, 10}} ->
            TemporadaCp \o Digits(CHOOSE n \in {5, 6, 9, 10} : "Temporada " \o ToString(n) = s)
      [] s \in {ToString(n) : n \in 0..9} ->
            <<48 + (CHOOSE n \in 0..9 : ToString(n) = s)>>
      [] s \in {IsoDate(d) : d \in Days} ->
            IsoCp \o <<48 + (CHOOSE d \in Days : IsoDate(d) = s)>>
      [] OTHER -> <<63>>

\* s.split(sep) on code points
RECURSIVE SplitCp(_, _, _)
SplitCp(cp, sep, part) ==
    IF cp = <<>> THEN <<part>>
    ELSE IF Head(cp) = sep THEN <<part>> \o SplitCp(Tail(cp), sep, <<>>)
    ELSE SplitCp(Tail(cp), sep, Append(part, Head(cp)))

\* str.isdigit() on code points
IsDigitCp(cp) == cp # <<>> /\ \A i \in 1..Len(cp) : cp[i] >= 48 /\ cp[i] <= 57

\* str.lower()
Lower(s) ==
    CASE s = "Bob" -> "bob"
      [] s = "Cara" -> "cara"
      [] OTHER -> s

\* str.lower() on code points (ASCII letters)
LowerCp(cp) == [i \in 1..Len(cp) |-> IF cp[i] >= 65 /\ cp[i] <= 90 THEN cp[i] + 32 ELSE cp[i]]

\* Python's < on two strings / tuples of integers: lexicographic
RECURSIVE LexLess(_, _)
LexLess(a, b) ==
    IF b = <<>> THEN FALSE
    ELSE IF a = <<>> THEN TRUE
    ELSE IF Head(a) # Head(b) THEN Head(a) < Head(b)
    ELSE LexLess(Tail(a), Tail(b))

\* str.strip()
Strip(s) ==
    CASE s = "Bob " -> "Bob"
      [] s = " " -> ""
      [] OTHER -> s

\* float(s) of a string, in halves; the strings that parse as a float
FloatText(s) ==
    CASE s = "2" -> 4
      [] s = "1.5" -> 3
      [] OTHER -> -1

\* str(x)
Str(c) ==
    CASE c.k = "na" -> "<NA>"
      [] c.k = "none" -> "None"
      [] c.k = "num" -> IF c.n % 2 = 0 THEN ToString(c.n \div 2)
                        ELSE ToString(c.n \div 2) \o ".5"
      [] c.k = "str" -> c.s
      [] c.k = "time" -> "09:00:00"
      [] OTHER -> IsoDate(c.n) \o " 00:00:00"

\* float(x), in halves; -1 where float() raises
FloatOf(c) ==
    CASE c.k = "num" -> c.n
      [] c.k = "str" -> FloatText(Strip(c.s))
      [] OTHER -> -1

\* int(float(x)): truncation toward zero (scores are not negative)
IntOfFloat(c) == FloatOf(c) \div 2

(***************************************************************************)
(* parser.py: helpers                                                      *)
(***************************************************************************)
_is_number(x) ==
    /\ x.k \notin {"na", "none"}
    /\ Strip(Str(x)) # ""
    /\ FloatOf(x) >= 0

\* ":" in s, and the first two parts of s.split(":") are digits
TimeText(s) ==
    LET parts == SplitCp(CodePoints(s), 58, <<>>)
    IN  Len(parts) >= 2 /\ IsDigitCp(parts[1]) /\ IsDigitCp(parts[2])

_looks_like_time(v) ==
    IF v.k = "none" THEN FALSE
    ELSE IF v.k \in {"time", "ts"} THEN TRUE
    ELSE IF Strip(Str(v)) = "" THEN FALSE
    ELSE TimeText(Strip(Str(v)))

SampleRows == 15
NumSets == 5

LayoutT6 == [date |-> 0, time |-> 1, div |-> 2, j1 |-> 3, j2 |-> 4, sets_start |-> 5]
LayoutLegacy == [date |-> 0, time |-> -1, div |-> 1, j1 |-> 2, j2 |-> 3, sets_start |-> 4]

Min(a, b) == IF a < b THEN a ELSE b

\* mutant of _infer_layout: every row of the sheet is looked at
_infer_layout_AllRows(df) ==
    LET has_time == \E i \in 1..Len(df) : _looks_like_time(CellAt(df[i], 1))
    IN  IF has_time THEN LayoutT6 ELSE LayoutLegacy

\* df is the sequence of the sheet's rows
_infer_layout(df) ==
    LET has_time == \E i \in 1..Min(Len(df), SampleRows) :
                        _looks_like_time(CellAt(df[i], 1))
    IN  IF has_time THEN LayoutT6 ELSE LayoutLegacy

_played_row(row, sets_start) ==
    \E i \in 0..(NumSets - 1) :
        /\ _is_number(CellAt(row, sets_start + 2 * i))
        /\ _is_number(CellAt(row, sets_start + 2 * i + 1))

NoTally == [ok |-> FALSE, j1 |-> "", j2 |-> "", sets1 |-> 0, sets2 |-> 0, pts1 |-> 0, pts2 |-> 0]

\* mutant of TallyLoop: a level set counts for player 1, and a pair with only
\* player 1's cell numeric still adds to player 1's points
RECURSIVE TallyLoop_Loose(_, _, _, _)
TallyLoop_Loose(row, sets_start, i, acc) ==
    IF i >= NumSets THEN acc
    ELSE LET a == CellAt(row, sets_start + 2 * i)
             b == CellAt(row, sets_start + 2 * i + 1)
         IN  IF _is_number(a) /\ _is_number(b)
             THEN LET ai == IntOfFloat(a)
                      bi == IntOfFloat(b)
                  IN  TallyLoop_Loose(row, sets_start, i + 1,
                        [acc EXCEPT !.pts1 = @ + ai,
                                    !.pts2 = @ + bi,
                                    !.sets1 = IF ai >= bi THEN @ + 1 ELSE @,
                                    !.sets2 = IF bi > ai THEN @ + 1 ELSE @])
             ELSE IF _is_number(a)
             THEN TallyLoop_Loose(row, sets_start, i + 1,
                        [acc EXCEPT !.pts1 = @ + IntOfFloat(a)])
             ELSE TallyLoop_Loose(row, sets_start, i + 1, acc)

\* the loop of _tally_match over the set pairs i..NumSets-1
RECURSIVE TallyLoop(_, _, _, _)
TallyLoop(row, sets_start, i, acc) ==
    IF i >= NumSets THEN acc
    ELSE LET a == CellAt(row, sets_start + 2 * i)
             b == CellAt(row, sets_start + 2 * i + 1)
         IN  IF _is_number(a) /\ _is_number(b)
             THEN LET ai == IntOfFloat(a)
                      bi == IntOfFloat(b)
                  IN  TallyLoop(row, sets_start, i + 1,
                        [acc EXCEPT !.pts1 = @ + ai,
                                    !.pts2 = @ + bi,
                                    !.sets1 = IF ai > bi THEN @ + 1 ELSE @,
                                    !.sets2 = IF bi > ai THEN @ + 1 ELSE @])
             ELSE TallyLoop(row, sets_start, i + 1, acc)

_tally_match(row, j1_idx, j2_idx, sets_start) ==
    IF ~_played_row(row, sets_start) THEN NoTally
    ELSE LET j1 == IF j1_idx < Len(row) THEN Strip(Str(row[j1_idx + 1])) ELSE ""
             j2 == IF j2_idx < Len(row) THEN Strip(Str(row[j2_idx + 1])) ELSE ""
         IN  IF j1 = "" \/ j2 = "" THEN NoTally
             ELSE TallyLoop(row, sets_start, 0,
                    [ok |-> TRUE, j1 |-> j1, j2 |-> j2,
                     sets1 |-> 0, sets2 |-> 0, pts1 |-> 0, pts2 |-> 0])


(***************************************************************************)
(* parser.py: the data directory and its discovery                         *)
(***************************************************************************)
SeasonNumbers == {5, 6, 9, 10}

\* "T6" and "Temporada 6"
Tn(n) == "T" \o ToString(n)
SeasonLabel(n) == "Temporada " \o ToString(n)
SeasonLabels == {SeasonLabel(n) : n \in SeasonNumbers}

\* the code points of the string "T<n>"
TnCodePoints(n) == <<84>> \o Digits(n)

\* the sort key of _discover: (len(s), s)
SeasonKeyLess(a, b) ==
    LET ca == TnCodePoints(a)
        cb == TnCodePoints(b)
    IN  IF Len(ca) # Len(cb) THEN Len(ca) < Len(cb) ELSE LexLess(ca, cb)

\* sorted(seasons, key=...) of the season numbers in S
RECURSIVE SortSeasons(_)
SortSeasons(S) ==
    IF S = {} THEN <<>>
    ELSE LET m == CHOOSE x \in S : \A y \in S \ {x} : SeasonKeyLess(x, y)
         IN  <<m>> \o SortSeasons(S \ {m})

\* the labels of the tags seasons[i..], one per listed file of the tag
RECURSIVE TagLabels(_, _, _)
TagLabels(res, seasons, i) ==
    IF i > Len(seasons) THEN <<>>
    ELSE (IF res[seasons[i]].twice
          THEN <<SeasonLabel(seasons[i]), SeasonLabel(seasons[i])>>
          ELSE <<SeasonLabel(seasons[i])>>) \o TagLabels(res, seasons, i + 1)

\* the listing keeps the files whose name starts with "resultados t" and ends
\* with .xlsx or .xls; a season with a file of each extension is listed twice
_discover(res) == TagLabels(res, SortSeasons({n \in DOMAIN res : res[n].exists}), 1)

\* the season number a label names: season_label.split()[-1]
_label_to_Tn(season_label) == CHOOSE n \in SeasonNumbers : SeasonLabel(n) = season_label

seasons == <<"(General)">> \o _season_names

(***************************************************************************)
(* parser.py: loading a season's roster and results                        *)
(***************************************************************************)
\* exists: a RESULTADOS T<n> workbook is there; twice: both as .xlsx and as .xls
NoResults == [exists |-> FALSE, twice |-> FALSE, rows |-> <<>>]
NoRoster == [exists |-> FALSE, cols |-> <<>>]

\* pd.read_excel or the empty DataFrame, as a sequence of rows
ReadResults(res, season_label) ==
    LET f == res[_label_to_Tn(season_label)]
    IN  IF f.exists THEN f.rows ELSE <<>>

\* the DataFrame _load_results_for returns
_load_results_for(season_label) ==
    IF season_label \in DOMAIN _results_by_season
    THEN _results_by_season[season_label]
    ELSE ReadResults(resultados, season_label)

\* the memo after _load_results_for
ResultsMemo(season_label) ==
    IF season_label \in DOMAIN _results_by_season
    THEN _results_by_season
    ELSE (season_label :> ReadResults(resultados, season_label)) @@ _results_by_season

Names3 == <<"División 1", "División 2", "División 3">>
Names4 == <<"División 1", "División 2", "División 3 - A", "División 3 - B">>
Names5 == <<"División 1", "División 2", "División 3", "División 4 - A", "División 4 - B">>
DivisionLabels == {"División 1", "División 2", "División 3", "División 3 - A",
                   "División 3 - B", "División 4 - A", "División 4 - B"}

\* df.iloc[:, i].dropna().astype(str).str.strip(), without "" and "nan"
RECURSIVE ColumnNames(_)
ColumnNames(col) ==
    IF col = <<>> THEN <<>>
    ELSE LET c == Head(col)
             x == Strip(Str(c))
         IN  IF c.k = "na" \/ x \in {"", "nan"} THEN ColumnNames(Tail(col))
             ELSE <<x>> \o ColumnNames(Tail(col))

\* the mapping division -> players, as the dict's items in insertion order
RECURSIVE BuildMapping(_, _, _)
BuildMapping(cols, names, i) ==
    IF i > Len(names) THEN <<>>
    ELSE LET col == IF i <= Len(cols) THEN ColumnNames(cols[i]) ELSE <<>>
         IN  IF col # <<>>
             THEN <<[div |-> names[i], players |-> col]>> \o BuildMapping(cols, names, i + 1)
             ELSE BuildMapping(cols, names, i + 1)

\* mutant of ReadPlayers: the three-label set whatever the number of columns
ReadPlayers_Names3(jug, season_label) ==
    LET f == jug[_label_to_Tn(season_label)]
    IN  IF ~f.exists THEN <<>> ELSE BuildMapping(f.cols, Names3, 1)

ReadPlayers(jug, season_label) ==
    LET f == jug[_label_to_Tn(season_label)]
        ncols == Len(f.cols)
        names == IF ncols >= 5 THEN Names5 ELSE IF ncols = 4 THEN Names4 ELSE Names3
    IN  IF ~f.exists THEN <<>> ELSE BuildMapping(f.cols, names, 1)

_load_players_for(season_label) ==
    IF season_label \in DOMAIN _players_by_season
    THEN _players_by_season[season_label]
    ELSE ReadPlayers(jugadores, season_label)

\* the memo after _load_players_for
PlayersMemo(season_label) ==
    IF season_label \in DOMAIN _players_by_season
    THEN _players_by_season
    ELSE (season_label :> ReadPlayers(jugadores, season_label)) @@ _players_by_season

\* dict operations on a mapping
HasDiv(mapping, division) == \E i \in 1..Len(mapping) : mapping[i].div = division
PlayersOf(mapping, division) ==
    LET i == CHOOSE i \in 1..Len(mapping) : mapping[i].div = division
    IN  mapping[i].players

\* list(players.keys())
divisions_for(mapping) == [i \in 1..Len(mapping) |-> mapping[i].div]

Range(s) == {s[i] : i \in 1..Len(s)}

(***************************************************************************)
(* parser.py: LeagueData.season_division_table                             *)
(***************************************************************************)
ZeroStats == [PJ |-> 0, V |-> 0, sets_f |-> 0, sets_c |-> 0, pts_f |-> 0, pts_c |-> 0]

\* mutant of Credit: level sets credit a win too
Credit_WinOnLevel(stats, p, sf, sc, pf, pc) ==
    IF p \in DOMAIN stats
    THEN [stats EXCEPT ![p] = [PJ |-> @.PJ + 1,
                               V |-> IF sf >= sc THEN @.V + 1 ELSE @.V,
                               sets_f |-> @.sets_f + sf,
                               sets_c |-> @.sets_c + sc,
                               pts_f |-> @.pts_f + pf,
                               pts_c |-> @.pts_c + pc]]
    ELSE stats

\* the update of one player's entry, when the player has one
Credit(stats, p, sf, sc, pf, pc) ==
    IF p \in DOMAIN stats
    THEN [stats EXCEPT ![p] = [PJ |-> @.PJ + 1,
                               V |-> IF sf > sc THEN @.V + 1 ELSE @.V,
                               sets_f |-> @.sets_f + sf,
                               sets_c |-> @.sets_c + sc,
                               pts_f |-> @.pts_f + pf,
                               pts_c |-> @.pts_c + pc]]
    ELSE stats

\* mutant of FoldRow: a row is skipped unless the roster lists both players
FoldRow_BothListed(stats, row, layout, players) ==
    LET j1 == IF layout.j1 < Len(row) THEN Strip(Str(row[layout.j1 + 1])) ELSE ""
        j2 == IF layout.j2 < Len(row) THEN Strip(Str(row[layout.j2 + 1])) ELSE ""
        tallied == _tally_match(row, layout.j1, layout.j2, layout.sets_start)
    IN  IF j1 \notin Range(players) \/ j2 \notin Range(players) THEN stats
        ELSE IF ~tallied.ok THEN stats
        ELSE Credit(Credit(stats, tallied.j1, tallied.sets1, tallied.sets2,
                           tallied.pts1, tallied.pts2),
                    tallied.j2, tallied.sets2, tallied.sets1, tallied.pts2, tallied.pts1)

\* the body of the loop over df.iterrows() for one row
FoldRow(stats, row, layout, players) ==
    LET j1 == IF layout.j1 < Len(row) THEN Strip(Str(row[layout.j1 + 1])) ELSE ""
        j2 == IF layout.j2 < Len(row) THEN Strip(Str(row[layout.j2 + 1])) ELSE ""
        tallied == _tally_match(row, layout.j1, layout.j2, layout.sets_start)
    IN  IF j1 \notin Range(players) /\ j2 \notin Range(players) THEN stats
        ELSE IF ~tallied.ok THEN stats
        ELSE Credit(Credit(stats, tallied.j1, tallied.sets1, tallied.sets2,
                           tallied.pts1, tallied.pts2),
                    tallied.j2, tallied.sets2, tallied.sets1, tallied.pts2, tallied.pts1)

\* the loop over the rows i..len(df)
RECURSIVE FoldRows(_, _, _, _, _)
FoldRows(stats, df, i, layout, players) ==
    IF i > Len(df) THEN stats
    ELSE FoldRows(FoldRow(stats, df[i], layout, players), df, i + 1, layout, players)

\* stats after the loop, for the roster list players and the sheet df
MatchStats(players, df) ==
    FoldRows([p \in Range(players) |-> ZeroStats], df, 1, _infer_layout(df), players)

\* the sort key (-V, -dsets, -dpuntos, jugador): a's key < b's key
NameLess(a, b) == LexLess(CodePoints(a), CodePoints(b))

\* mutant of TableKeyLess: the points difference is left out of the key
TableKeyLess_NoPoints(a, b) ==
    IF a.V # b.V THEN a.V > b.V
    ELSE IF a.dsets # b.dsets THEN a.dsets > b.dsets
    ELSE NameLess(a.jugador, b.jugador)

TableKeyLess(a, b) ==
    IF a.V # b.V THEN a.V > b.V
    ELSE IF a.dsets # b.dsets THEN a.dsets > b.dsets
    ELSE IF a.dpuntos # b.dpuntos THEN a.dpuntos > b.dpuntos
    ELSE NameLess(a.jugador, b.jugador)

\* list.sort is stable: x goes before the first row whose key is greater
RECURSIVE InsertTableRow(_, _)
InsertTableRow(x, sorted) ==
    IF sorted = <<>> THEN <<x>>
    ELSE IF TableKeyLess(x, Head(sorted)) THEN <<x>> \o sorted
    ELSE <<Head(sorted)>> \o InsertTableRow(x, Tail(sorted))

RECURSIVE SortTable(_, _)
SortTable(rows, i) ==
    IF i = 0 THEN <<>> ELSE InsertTableRow(rows[i], SortTable(rows, i - 1))

TableRow(p, st) ==
    [jugador |-> p, PJ |-> st.PJ, V |-> st.V,
     dsets |-> st.sets_f - st.sets_c, dpuntos |-> st.pts_f - st.pts_c]

\* the rows season_division_table returns for a roster mapping and a sheet
season_division_table(players_by_div, df, division) ==
    IF ~HasDiv(players_by_div, division) THEN <<>>
    ELSE LET players == PlayersOf(players_by_div, division)
             stats == MatchStats(players, df)
             rows == [i \in 1..Len(players) |-> TableRow(players[i], stats[players[i]])]
         IN  IF df = <<>> THEN <<>> ELSE SortTable(rows, Len(rows))

(***************************************************************************)
(* parser.py: LeagueData.general_rows                                      *)
(***************************************************************************)
\* division.startswith(prefix), for the labels of the roster loader
StartsWith(division, prefix) ==
    CASE prefix = "División 1" -> division = "División 1"
      [] prefix = "División 2" -> division = "División 2"
      [] OTHER -> FALSE

BasePoints == <<34, 31, 29, 27>>

\* mutant of puntos_pos: División 1 floored at zero like the other divisions
puntos_pos_Floored(division, pos) ==
    IF StartsWith(division, "División 1")
    THEN IF pos <= 4 THEN BasePoints[pos]
         ELSE IF 27 - (pos - 4) > 0 THEN 27 - (pos - 4) ELSE 0
    ELSE IF StartsWith(division, "División 2")
    THEN IF 20 - (pos - 1) > 0 THEN 20 - (pos - 1) ELSE 0
    ELSE IF 10 - (pos - 1) > 0 THEN 10 - (pos - 1) ELSE 0

\* mutant of puntos_pos: the max(..., 0) of the other divisions left out
puntos_pos_NoFloor(division, pos) ==
    IF StartsWith(division, "División 1")
    THEN IF pos <= 4 THEN BasePoints[pos] ELSE 27 - (pos - 4)
    ELSE IF StartsWith(division, "División 2")
    THEN 20 - (pos - 1)
    ELSE 10 - (pos - 1)

puntos_pos(division, pos) ==
    IF StartsWith(division, "División 1")
    THEN IF pos <= 4 THEN BasePoints[pos] ELSE 27 - (pos - 4)
    ELSE IF StartsWith(division, "División 2")
    THEN IF 20 - (pos - 1) > 0 THEN 20 - (pos - 1) ELSE 0
    ELSE IF 10 - (pos - 1) > 0 THEN 10 - (pos - 1) ELSE 0

\* mutant of AggAdd: the entry is overwritten instead of added to
AggAdd_Overwrite(agg, name, pts, wins) ==
    IF \E i \in 1..Len(agg) : agg[i].jugador = name
    THEN [i \in 1..Len(agg) |->
            IF agg[i].jugador = name
            THEN [agg[i] EXCEPT !.PUNTOS_LIGA = pts, !.V = wins]
            ELSE agg[i]]
    ELSE Append(agg, [jugador |-> name, PUNTOS_LIGA |-> pts, V |-> wins])

\* agg_points / agg_wins, as the dict's items in insertion order
AggAdd(agg, name, pts, wins) ==
    IF \E i \in 1..Len(agg) : agg[i].jugador = name
    THEN [i \in 1..Len(agg) |->
            IF agg[i].jugador = name
            THEN [agg[i] EXCEPT !.PUNTOS_LIGA = @ + pts, !.V = @ + wins]
            ELSE agg[i]]
    ELSE Append(agg, [jugador |-> name, PUNTOS_LIGA |-> pts, V |-> wins])

\* for idx, row in enumerate(table, start=1)
RECURSIVE AggTable(_, _, _, _)
AggTable(agg, table, division, idx) ==
    IF idx > Len(table) THEN agg
    ELSE AggTable(AggAdd(agg, table[idx].jugador, puntos_pos(division, idx), table[idx].V),
                  table, division, idx + 1)

\* for division in self.divisions_for(season_label)
RECURSIVE AggSeason(_, _, _, _)
AggSeason(agg, mapping, df, i) ==
    IF i > Len(mapping) THEN agg
    ELSE AggSeason(AggTable(agg, season_division_table(mapping, df, mapping[i].div),
                            mapping[i].div, 1),
                   mapping, df, i + 1)

\* for season_label in self._season_names
RECURSIVE AggSeasons(_, _)
AggSeasons(agg, i) ==
    IF i > Len(_season_names) THEN agg
    ELSE LET mapping == _load_players_for(_season_names[i])
             df == IF mapping = <<>> THEN <<>> ELSE _load_results_for(_season_names[i])
         IN  AggSeasons(AggSeason(agg, mapping, df, 1), i + 1)

\* mutant of GeneralKeyLess: the wins are left out of the key
GeneralKeyLess_NoWins(a, b) ==
    IF a.PUNTOS_LIGA # b.PUNTOS_LIGA THEN a.PUNTOS_LIGA > b.PUNTOS_LIGA
    ELSE NameLess(a.jugador, b.jugador)

\* the sort key (-PUNTOS_LIGA, -V, jugador)
GeneralKeyLess(a, b) ==
    IF a.PUNTOS_LIGA # b.PUNTOS_LIGA THEN a.PUNTOS_LIGA > b.PUNTOS_LIGA
    ELSE IF a.V # b.V THEN a.V > b.V
    ELSE NameLess(a.jugador, b.jugador)

RECURSIVE InsertGeneralRow(_, _)
InsertGeneralRow(x, sorted) ==
    IF sorted = <<>> THEN <<x>>
    ELSE IF GeneralKeyLess(x, Head(sorted)) THEN <<x>> \o sorted
    ELSE <<Head(sorted)>> \o InsertGeneralRow(x, Tail(sorted))

RECURSIVE SortGeneral(_, _)
SortGeneral(rows, i) ==
    IF i = 0 THEN <<>> ELSE InsertGeneralRow(rows[i], SortGeneral(rows, i - 1))

general_rows ==
    LET agg == AggSeasons(<<>>, 1)
    IN  SortGeneral(agg, Len(agg))

(***************************************************************************)
(* The workbooks the data directory may hold.                              *)
(***************************************************************************)
SeqsUpTo(S, n) == UNION {[1..k -> S] : k \in 0..n}

\* the ten set cells of a row: the given pairs, then empty cells
SetCells(pairs) ==
    [i \in 1..(2 * NumSets) |->
        IF (i + 1) \div 2 <= Len(pairs) THEN pairs[(i + 1) \div 2][2 - (i % 2)] ELSE NA]

\* a row of a legacy sheet and of a sheet with a time column
LegacyRow(j1, j2, pairs) == <<DateCell(1), Num(2), Txt(j1), Txt(j2)>> \o SetCells(pairs)
T6Row(j1, j2, pairs) ==
    <<DateCell(1), TimeCell(540), Num(2), Txt(j1), Txt(j2)>> \o SetCells(pairs)

NameList == <<"Cara", "ana", "Bob">>
MatchPairs == {<<"ana", "Bob">>, <<"Cara", "ana">>}

\* a one-sided set (no result); one set each, 2-0 and 0-1; a set won 2-0 by player 1
ScoreLines ==
    { <<<<Num(4), NA>>>>,
      <<<<Num(4), Num(0)>>, <<Num(0), Num(2)>>>>,
      <<<<Num(4), Num(0)>>>> }

LegacyRows(lines) == {LegacyRow(m[1], m[2], l) : m \in MatchPairs, l \in lines}
T6Rows(lines) == {T6Row(m[1], m[2], l) : m \in MatchPairs, l \in lines}

ResultsFiles(lines, maxRows) ==
    {[exists |-> TRUE, twice |-> FALSE, rows |-> r] :
        r \in SeqsUpTo(LegacyRows(lines), maxRows) \cup SeqsUpTo(T6Rows(lines), maxRows)}

\* the names of list at the positions in S, in the list's order
RECURSIVE SubList(_, _, _)
SubList(list, S, i) ==
    IF i > Len(list) THEN <<>>
    ELSE IF i \in S THEN <<list[i]>> \o SubList(list, S, i + 1)
    ELSE SubList(list, S, i + 1)

RosterColumns(maxCol) ==
    {SubList(NameList, S, 1) : S \in {T \in SUBSET (1..Len(NameList)) : Cardinality(T) <= maxCol}}

\* a sheet column of height h: the names, then empty cells
SheetColumn(col, h) == [i \in 1..h |-> IF i <= Len(col) THEN Txt(col[i]) ELSE NA]

Max(a, b) == IF a > b THEN a ELSE b

\* a two-column roster workbook
RosterFile(c1, c2) ==
    [exists |-> TRUE,
     cols |-> <<SheetColumn(c1, Max(Len(c1), Len(c2))), SheetColumn(c2, Max(Len(c1), Len(c2)))>>]

\* División 1 holds up to maxCol names, División 2 at most one
RosterFiles(maxCol) ==
    {RosterFile(c1, c2) : c1 \in RosterColumns(maxCol), c2 \in RosterColumns(1)}

EmptyMemo == [l \in {} |-> <<>>]
\* no submission is queued and no approval is in flight
NoRequests == [r \in {} |-> <<>>]
NoSubmissions == PENDING_FILE = <<>> /\ APPROVED_FILE = <<>> /\ requests = NoRequests
NoResp == [op |-> "init", season |-> "", division |-> "", arg |-> <<>>, out |-> <<>>]

(***************************************************************************)
(* Init: the LeagueData object right after construction over a data        *)
(* directory holding season 6.                                            *)
(***************************************************************************)
InitObject ==
    /\ _season_names = _discover(resultados)
    /\ _players_by_season = EmptyMemo
    /\ _results_by_season = EmptyMemo
    /\ resp = NoResp
    /\ NoSubmissions

Init ==
    /\ \E f \in {NoResults} \cup ResultsFiles(ScoreLines, MaxRows) :
          resultados = [n \in SeasonNumbers |-> IF n = 6 THEN f ELSE NoResults]
    /\ \E f \in {NoRoster} \cup RosterFiles(MaxCol) :
          jugadores = [n \in SeasonNumbers |-> IF n = 6 THEN f ELSE NoRoster]
    /\ InitObject

(***************************************************************************)
(* The calls of the public API.                                            *)
(***************************************************************************)
RequestDivisions == {"División 1", "División 2", "División 3"}

\* the seasons a request names: those with a workbook in the data directory
RequestSeasons ==
    {SeasonLabel(n) : n \in {m \in SeasonNumbers : resultados[m].exists \/ jugadores[m].exists}}

Seasons ==
    /\ resp' = [op |-> "seasons", season |-> "", division |-> "", arg |-> <<>>,
                out |-> seasons]
    /\ UNCHANGED <<PENDING_FILE, APPROVED_FILE, requests, resultados, jugadores, _season_names, _players_by_season,
                   _results_by_season>>

DivisionsFor(season_label) ==
    /\ _players_by_season' = PlayersMemo(season_label)
    /\ resp' = [op |-> "divisions_for", season |-> season_label, division |-> "",
                arg |-> <<>>, out |-> divisions_for(_load_players_for(season_label))]
    /\ UNCHANGED <<PENDING_FILE, APPROVED_FILE, requests, resultados, jugadores, _season_names, _results_by_season>>

SeasonDivisionTable(season_label, division) ==
    LET players_by_div == _load_players_for(season_label)
        loads == HasDiv(players_by_div, division)
        df == IF loads THEN _load_results_for(season_label) ELSE <<>>
    IN  /\ _players_by_season' = PlayersMemo(season_label)
        /\ _results_by_season' = IF loads THEN ResultsMemo(season_label)
                                 ELSE _results_by_season
        /\ resp' = [op |-> "season_division_table", season |-> season_label,
                    division |-> division, arg |-> <<>>,
                    out |-> season_division_table(players_by_div, df, division)]
        /\ UNCHANGED <<PENDING_FILE, APPROVED_FILE, requests, resultados, jugadores, _season_names>>

GeneralRows ==
    LET named == Range(_season_names)
        withDivs == {l \in named : _load_players_for(l) # <<>>}
    IN  /\ _players_by_season' =
              [l \in DOMAIN _players_by_season \cup named |-> _load_players_for(l)]
        /\ _results_by_season' =
              [l \in DOMAIN _results_by_season \cup withDivs |-> _load_results_for(l)]
        /\ resp' = [op |-> "general_rows", season |-> "", division |-> "", arg |-> <<>>,
                    out |-> general_rows]
        /\ UNCHANGED <<PENDING_FILE, APPROVED_FILE, requests, resultados, jugadores, _season_names>>

Next ==
    \/ Seasons
    \/ \E l \in RequestSeasons : DivisionsFor(l)
    \/ \E l \in RequestSeasons, d \in RequestDivisions : SeasonDivisionTable(l, d)
    \/ GeneralRows

Spec == Init /\ [][Next]_vars

(***************************************************************************)
(* What the claims read: the last response, the memoised tables it was     *)
(* computed from, and the sheet's rows as the inferred layout reads them.  *)
(***************************************************************************)
RespMapping ==
    IF resp.season \in DOMAIN _players_by_season THEN _players_by_season[resp.season]
    ELSE <<>>
RespDf ==
    IF resp.season \in DOMAIN _results_by_season THEN _results_by_season[resp.season]
    ELSE <<>>
\* a table was asked for a division the season's roster lists
IsTable == resp.op = "season_division_table" /\ HasDiv(RespMapping, resp.division)
RespPlayers == Range(PlayersOf(RespMapping, resp.division))

RowJ1(df, i) == Strip(Str(CellAt(df[i], _infer_layout(df).j1)))
RowJ2(df, i) == Strip(Str(CellAt(df[i], _infer_layout(df).j2)))
RowPlayed(df, i) == _played_row(df[i], _infer_layout(df).sets_start)
\* the set pairs of row i with both cells numeric
ScoredPairs(df, i) ==
    {k \in 0..(NumSets - 1) :
        /\ _is_number(CellAt(df[i], _infer_layout(df).sets_start + 2 * k))
        /\ _is_number(CellAt(df[i], _infer_layout(df).sets_start + 2 * k + 1))}
PairA(df, i, k) == CellAt(df[i], _infer_layout(df).sets_start + 2 * k)
PairB(df, i, k) == CellAt(df[i], _infer_layout(df).sets_start + 2 * k + 1)
\* sets won by player 1 and by player 2 of row i
RowSets1(df, i) ==
    Cardinality({k \in ScoredPairs(df, i) : IntOfFloat(PairA(df, i, k)) > IntOfFloat(PairB(df, i, k))})
RowSets2(df, i) ==
    Cardinality({k \in ScoredPairs(df, i) : IntOfFloat(PairB(df, i, k)) > IntOfFloat(PairA(df, i, k))})
\* the played rows of df that name a player of the set players
PlayedOf(df, players) ==
    {i \in 1..Len(df) : RowPlayed(df, i) /\ (RowJ1(df, i) \in players \/ RowJ2(df, i) \in players)}
HasRow(out, p) == \E k \in 1..Len(out) : out[k].jugador = p

\* C1 (as claimed): every player of a non-empty division roster has a row in
\* season_division_table, whatever the results sheet holds (an empty or missing
\* sheet included), and a roster player with no played match has PJ = 0, V = 0.
C1_RosterCompleteness ==
    IsTable =>
        \A p \in RespPlayers :
            /\ HasRow(resp.out, p)
            /\ \A k \in 1..Len(resp.out) :
                  (resp.out[k].jugador = p /\ PlayedOf(RespDf, {p}) = {})
                      => (resp.out[k].PJ = 0 /\ resp.out[k].V = 0)

\* C2 (as claimed): rows with no set pair of two numeric cells change nothing:
\* the table is the one computed from the sheet without those rows.
PlayedRowsOnly(df) ==
    LET RECURSIVE Keep(_)
        Keep(i) == IF i > Len(df) THEN <<>>
                   ELSE IF RowPlayed(df, i) THEN <<df[i]>> \o Keep(i + 1)
                   ELSE Keep(i + 1)
    IN  Keep(1)
C2_PlayedMatchGating ==
    IsTable =>
        resp.out = season_division_table(RespMapping, PlayedRowsOnly(RespDf), resp.division)

\* the played matches of the division in which p is player 1 / player 2
AsJ1(p) == {i \in PlayedOf(RespDf, RespPlayers) : RowJ1(RespDf, i) = p}
AsJ2(p) == {i \in PlayedOf(RespDf, RespPlayers) : RowJ2(RespDf, i) = p}
\* those of them that p won: strictly more sets than the opponent
WonAsJ1(p) == {i \in AsJ1(p) : RowSets1(RespDf, i) > RowSets2(RespDf, i)}
WonAsJ2(p) == {i \in AsJ2(p) : RowSets2(RespDf, i) > RowSets1(RespDf, i)}
\* p's row counts each of p's played matches once, and each of p's wins once
CountsOf(p) ==
    \E k \in 1..Len(resp.out) :
        /\ resp.out[k].jugador = p
        /\ resp.out[k].PJ = Cardinality(AsJ1(p)) + Cardinality(AsJ2(p))
        /\ resp.out[k].V = Cardinality(WonAsJ1(p)) + Cardinality(WonAsJ2(p))

PointsFor(p) == MatchStats(PlayersOf(RespMapping, resp.division), RespDf)[p].pts_f

LowerLess(a, b) == LexLess(LowerCp(CodePoints(a)), LowerCp(CodePoints(b)))

\* C6 (as claimed): two players of a table with identical wins, set difference
\* and points-for (and the same points difference) appear in ascending
\* alphabetical order of their names compared case-insensitively.
C6_NameTieBreakCaseInsensitive ==
    IsTable =>
        \A k, m \in 1..Len(resp.out) :
            LET a == resp.out[k]
                b == resp.out[m]
            IN  (/\ k < m
                 /\ a.V = b.V /\ a.dsets = b.dsets /\ a.dpuntos = b.dpuntos
                 /\ PointsFor(a.jugador) = PointsFor(b.jugador))
                    => LowerLess(a.jugador, b.jugador)

(***************************************************************************)
(* SpecTally: _tally_match applied to rows drawn from a bounded set.       *)
(***************************************************************************)
\* the cells a set column may hold: empty, a score in halves, text, a numeric text
ScoreCellChoices == {NA, Txt("x"), Txt("2")} \cup {Num(h) : h \in 0..MaxHalf}
PairChoices == ScoreCellChoices \X ScoreCellChoices

\* the cells before the set columns under a layout
RowPrefix(layout) ==
    IF layout.sets_start = 5
    THEN <<DateCell(1), TimeCell(540), Num(2), Txt("ana"), Txt("Bob")>>
    ELSE <<DateCell(1), Num(2), Txt("ana"), Txt("Bob")>>

\* a row with the pairs x and y in the set slots p < q (1-based), the other
\* slots empty; cut after slot q when short
TallyRow(layout, p, x, q, y, short) ==
    LET full == RowPrefix(layout) \o
                [i \in 1..(2 * NumSets) |->
                    IF (i + 1) \div 2 = p THEN x[2 - (i % 2)]
                    ELSE IF (i + 1) \div 2 = q THEN y[2 - (i % 2)]
                    ELSE NA]
    IN  IF short THEN SubSeq(full, 1, layout.sets_start + 2 * q) ELSE full

EmptyDir ==
    /\ resultados = [n \in SeasonNumbers |-> NoResults]
    /\ jugadores = [n \in SeasonNumbers |-> NoRoster]

\* Init: a call of _tally_match about to run, its row drawn from the bounded set
InitTally ==
    /\ EmptyDir
    /\ _season_names = _discover(resultados)
    /\ _players_by_season = EmptyMemo
    /\ _results_by_season = EmptyMemo
    /\ NoSubmissions
    /\ \E layout \in {LayoutLegacy, LayoutT6}, p \in 1..NumSets, q \in 1..NumSets,
          x \in PairChoices, y \in PairChoices, short \in BOOLEAN :
           /\ p < q
           /\ resp = [op |-> "call _tally_match", season |-> "", division |-> "",
                      arg |-> [row |-> TallyRow(layout, p, x, q, y, short),
                               layout |-> layout],
                      out |-> <<>>]

TallyMatch ==
    /\ resp.op = "call _tally_match"
    /\ resp' = [op |-> "_tally_match", season |-> "", division |-> "",
                arg |-> [row |-> resp.arg.row, sets_start |-> resp.arg.layout.sets_start],
                out |-> _tally_match(resp.arg.row, resp.arg.layout.j1, resp.arg.layout.j2,
                                     resp.arg.layout.sets_start)]
    /\ UNCHANGED <<PENDING_FILE, APPROVED_FILE, requests, resultados, jugadores, _season_names, _players_by_season,
                   _results_by_season>>

NextTally == TallyMatch

SpecTally == InitTally /\ [][NextTally]_vars

IsTally == resp.op = "_tally_match"
\* the set pairs of the tallied row with both cells numeric
TallyScored ==
    {k \in 0..(NumSets - 1) :
        /\ _is_number(CellAt(resp.arg.row, resp.arg.sets_start + 2 * k))
        /\ _is_number(CellAt(resp.arg.row, resp.arg.sets_start + 2 * k + 1))}
TallyA(k) == CellAt(resp.arg.row, resp.arg.sets_start + 2 * k)
TallyB(k) == CellAt(resp.arg.row, resp.arg.sets_start + 2 * k + 1)

\* the sum of f[k] over the finite set S
RECURSIVE SumOver(_, _)
SumOver(f, S) ==
    IF S = {} THEN 0
    ELSE LET k == CHOOSE k \in S : TRUE IN f[k] + SumOver(f, S \ {k})

\* C3 (as claimed): for a played row, sets1 / sets2 count the pairs with both
\* cells numeric and a > b / b > a, and pts1 / pts2 are the sums of a and of b
\* over exactly those pairs, a and b being the cells' values (halves on both
\* sides of the points equations).
C3_SetCountingCellValues ==
    (IsTally /\ TallyScored # {}) =>
        /\ resp.out.ok
        /\ resp.out.sets1 = Cardinality({k \in TallyScored : FloatOf(TallyA(k)) > FloatOf(TallyB(k))})
        /\ resp.out.sets2 = Cardinality({k \in TallyScored : FloatOf(TallyB(k)) > FloatOf(TallyA(k))})
        /\ 2 * resp.out.pts1 = SumOver([k \in 0..(NumSets - 1) |-> FloatOf(TallyA(k))], TallyScored)
        /\ 2 * resp.out.pts2 = SumOver([k \in 0..(NumSets - 1) |-> FloatOf(TallyB(k))], TallyScored)

\* C3 (amended): the same with a and b the cells' values truncated to integers
\* (int(float(x))): a pair with one numeric cell adds nothing, and a pair whose
\* truncated values are equal adds to the points and to neither set count.
C3_SetCountingTruncated ==
    (IsTally /\ TallyScored # {}) =>
        /\ resp.out.ok
        /\ resp.out.sets1 = Cardinality({k \in TallyScored : IntOfFloat(TallyA(k)) > IntOfFloat(TallyB(k))})
        /\ resp.out.sets2 = Cardinality({k \in TallyScored : IntOfFloat(TallyB(k)) > IntOfFloat(TallyA(k))})
        /\ resp.out.pts1 = SumOver([k \in 0..(NumSets - 1) |-> IntOfFloat(TallyA(k))], TallyScored)
        /\ resp.out.pts2 = SumOver([k \in 0..(NumSets - 1) |-> IntOfFloat(TallyB(k))], TallyScored)

\* C3 witness: a played row tallied with one level pair (a = b > 0) and one pair
\* with only player 1's cell numeric.
C3_Witness ==
    /\ IsTally /\ resp.out.ok
    /\ \E k \in TallyScored : FloatOf(TallyA(k)) = FloatOf(TallyB(k)) /\ FloatOf(TallyA(k)) > 1
    /\ \E k \in 0..(NumSets - 1) : _is_number(TallyA(k)) /\ ~_is_number(TallyB(k))
    /\ resp.out.sets1 = 0 /\ resp.out.sets2 = 0 /\ resp.out.pts1 > 0

(***************************************************************************)
(* SpecAward: puntos_pos applied to every division label and rank.         *)
(***************************************************************************)
\* Init: a call of puntos_pos about to run
InitAward ==
    /\ EmptyDir
    /\ _season_names = _discover(resultados)
    /\ _players_by_season = EmptyMemo
    /\ _results_by_season = EmptyMemo
    /\ NoSubmissions
    /\ \E d \in DivisionLabels, pos \in 1..MaxPos :
          resp = [op |-> "call puntos_pos", season |-> "", division |-> d,
                  arg |-> pos, out |-> 0]

PuntosPos ==
    /\ resp.op = "call puntos_pos"
    /\ resp' = [resp EXCEPT !.op = "puntos_pos",
                            !.out = puntos_pos(resp.division, resp.arg)]
    /\ UNCHANGED <<PENDING_FILE, APPROVED_FILE, requests, resultados, jugadores, _season_names, _players_by_season,
                   _results_by_season>>

NextAward == PuntosPos

SpecAward == InitAward /\ [][NextAward]_vars

IsAward == resp.op = "puntos_pos"

\* C7: rank r of a División 1 table is awarded 34, 31, 29, 27 for r = 1..4 and
\* 27 - (r - 4) for every r >= 5, with no floor at zero.
C7_AwardDivision1 ==
    (IsAward /\ resp.division = "División 1") =>
        resp.out = (CASE resp.arg = 1 -> 34
                      [] resp.arg = 2 -> 31
                      [] resp.arg = 3 -> 29
                      [] resp.arg = 4 -> 27
                      [] OTHER -> 27 - (resp.arg - 4))

\* C7 witness: a División 1 rank so low that its award is negative.
C7_Witness == IsAward /\ resp.division = "División 1" /\ resp.arg >= 5 /\ resp.out < 0

\* C8: rank r of División 2 is awarded max(20 - (r - 1), 0), rank r of any
\* division other than División 1 and División 2 max(10 - (r - 1), 0); these
\* awards are never negative.
C8_AwardOtherDivisions ==
    (IsAward /\ resp.division # "División 1") =>
        LET top == IF resp.division = "División 2" THEN 20 ELSE 10
        IN  /\ resp.out >= 0
            /\ resp.arg - 1 <= top => resp.out = top - (resp.arg - 1)
            /\ resp.arg - 1 > top => resp.out = 0

\* C8 witness: a rank past the schedule's end in División 2, awarded 0.
C8_Witness == IsAward /\ resp.division = "División 2" /\ resp.arg > 21 /\ resp.out = 0

(***************************************************************************)
(* SpecGeneral: the general table over two seasons, the older one drawn    *)
(* from a small archive.                                                   *)
(***************************************************************************)
ArchiveRosters == {NoRoster} \cup {RosterFile(<<NameList[i]>>, <<>>) : i \in 1..Len(NameList)}
ArchiveResults ==
    {NoResults} \cup
    {[exists |-> TRUE, twice |-> FALSE, rows |-> <<r>>] :
        r \in LegacyRows({l \in ScoreLines : l[1][2] # NA})}

InitGeneral ==
    /\ \E f5 \in ArchiveResults,
          f6 \in {NoResults} \cup ResultsFiles(ScoreLines, MaxRowsGeneral) :
          resultados = [n \in SeasonNumbers |->
                           IF n = 6 THEN f6 ELSE IF n = 5 THEN f5 ELSE NoResults]
    /\ \E f5 \in ArchiveRosters, f6 \in {NoRoster} \cup RosterFiles(MaxCol) :
          jugadores = [n \in SeasonNumbers |->
                          IF n = 6 THEN f6 ELSE IF n = 5 THEN f5 ELSE NoRoster]
    /\ InitObject

NextGeneral == Seasons \/ GeneralRows

SpecGeneral == InitGeneral /\ [][NextGeneral]_vars

IsGeneral == resp.op = "general_rows"

\* the table of a discovered season's division, from the memoised sheets
MemoTable(l, d) ==
    season_division_table(_players_by_season[l],
                          IF l \in DOMAIN _results_by_season THEN _results_by_season[l] ELSE <<>>,
                          d)
\* the rows of all tables of the discovered seasons, each with its season,
\* division and rank
TableEntries ==
    UNION {LET T == MemoTable(p[1], p[2])
           IN  {[season |-> p[1], division |-> p[2], rank |-> k, row |-> T[k]] :
                    k \in 1..Len(T)} :
           p \in Range(_season_names) \X DivisionLabels}
EntriesOfIn(E, name) == {e \in E : e.row.jugador = name}
\* a player's totals over the table rows E
TotalAwardIn(E, name) ==
    LET X == EntriesOfIn(E, name)
    IN  SumOver([e \in X |-> puntos_pos(e.division, e.rank)], X)
TotalWinsIn(E, name) ==
    LET X == EntriesOfIn(E, name)
    IN  SumOver([e \in X |-> e.row.V], X)
TotalSetDiffIn(E, name) ==
    LET X == EntriesOfIn(E, name)
    IN  SumOver([e \in X |-> e.row.dsets], X)
EntriesOf(name) == EntriesOfIn(TableEntries, name)
TotalSetDiff(name) == TotalSetDiffIn(TableEntries, name)

\* C9 (as claimed): general_rows is sorted by award points descending, then wins
\* descending, then total set difference descending (then points_for, then
\* name): two players level on award points and wins are ordered by their
\* total set difference, not by name.
C9_GeneralOrderSetDiff ==
    IsGeneral =>
        \A k \in 1..(Len(resp.out) - 1) :
            LET a == resp.out[k]
                b == resp.out[k + 1]
            IN  \/ a.PUNTOS_LIGA > b.PUNTOS_LIGA
                \/ a.PUNTOS_LIGA = b.PUNTOS_LIGA /\ a.V > b.V
                \/ a.PUNTOS_LIGA = b.PUNTOS_LIGA /\ a.V = b.V
                     /\ TotalSetDiff(a.jugador) >= TotalSetDiff(b.jugador)

\* C9 (amended): general_rows is sorted by award points descending, then wins
\* descending, then name ascending (Python string order): two players level on
\* award points and wins are ordered by name.
C9_GeneralOrderName ==
    IsGeneral =>
        \A k \in 1..(Len(resp.out) - 1) :
            LET a == resp.out[k]
                b == resp.out[k + 1]
            IN  \/ a.PUNTOS_LIGA > b.PUNTOS_LIGA
                \/ a.PUNTOS_LIGA = b.PUNTOS_LIGA /\ a.V > b.V
                \/ a.PUNTOS_LIGA = b.PUNTOS_LIGA /\ a.V = b.V
                     /\ NameLess(a.jugador, b.jugador)

\* C9 witness: a general table with adjacent rows level on award points and on
\* wins, the first with the smaller total set difference.
C9_Witness ==
    /\ IsGeneral
    /\ \E k \in 1..(Len(resp.out) - 1) :
          /\ resp.out[k].PUNTOS_LIGA = resp.out[k + 1].PUNTOS_LIGA
          /\ resp.out[k].V = resp.out[k + 1].V
          /\ TotalSetDiff(resp.out[k].jugador) < TotalSetDiff(resp.out[k + 1].jugador)

\* C10: for every player, PUNTOS_LIGA of general_rows is the sum, over every
\* discovered season and every division of it, of the award of the rank the
\* player holds in season_division_table, and V the sum of the player's wins over
\* the same tables; a player listed in no table has no row.
C10_GeneralAccumulation ==
    IsGeneral =>
        LET E == TableEntries
        IN  /\ \A k \in 1..Len(resp.out) :
                  /\ EntriesOfIn(E, resp.out[k].jugador) # {}
                  /\ resp.out[k].PUNTOS_LIGA = TotalAwardIn(E, resp.out[k].jugador)
                  /\ resp.out[k].V = TotalWinsIn(E, resp.out[k].jugador)
                  /\ \A m \in 1..Len(resp.out) :
                        resp.out[m].jugador = resp.out[k].jugador => m = k
            /\ \A e \in E : HasRow(resp.out, e.row.jugador)

\* C10 witness: a general table with a player ranked in tables of two seasons,
\* one of them below first place, and with a win.
C10_Witness ==
    /\ IsGeneral
    /\ \E k \in 1..Len(resp.out) :
          /\ \E e, f \in EntriesOf(resp.out[k].jugador) :
                e.season # f.season /\ e.rank > 1
          /\ resp.out[k].V > 0

(***************************************************************************)
(* parser.py: LeagueData.results_rows                                      *)
(***************************************************************************)
\* _cell: None for a missing cell, the number of a numeric cell, else the
\* stripped text of the cell
_cell(row, i) ==
    LET v == CellAt(row, i)
    IN  IF i < 0 \/ v.k \in {"none", "na"} THEN None
        ELSE IF _is_number(v) THEN Num(FloatOf(v))
        ELSE Txt(Strip(Str(v)))

\* pd.to_datetime(s).date().isoformat() of the text of a timestamp; "" where
\* the text is not a date
ParsedDate(s) ==
    IF \E d \in Days : s \in {IsoDate(d), IsoDate(d) \o " 00:00:00"}
    THEN IsoDate(CHOOSE d \in Days : s \in {IsoDate(d), IsoDate(d) \o " 00:00:00"})
    ELSE ""

\* the date 1899-12-30 + n days, as text
ExcelSerial(n) == "1899-12-30+" \o ToString(n)

\* v is what _cell returned; a text that is no date comes back as it is
_excel_date_to_str(v) ==
    LET s == IF v.k = "none" THEN "" ELSE Strip(Str(v))
    IN  IF s = "" THEN ""
        ELSE IF v.k = "num" THEN ExcelSerial(v.n \div 2)
        ELSE IF ParsedDate(s) # "" THEN ParsedDate(s)
        ELSE s

\* int(p) of a string of digits, and its two-digit rendering
RECURSIVE IntOfDigits(_, _)
IntOfDigits(cp, acc) ==
    IF cp = <<>> THEN acc ELSE IntOfDigits(Tail(cp), 10 * acc + (Head(cp) - 48))
Pad2(n) == IF n < 10 THEN "0" \o ToString(n) ELSE ToString(n)

_excel_time_to_str(v) ==
    LET s == Strip(Str(v))
        parts == SplitCp(CodePoints(s), 58, <<>>)
    IN  IF v.k = "none" \/ s = "" THEN ""
        ELSE IF Len(parts) >= 2 /\ IsDigitCp(parts[1]) /\ IsDigitCp(parts[2])
        THEN Pad2(IntOfDigits(parts[1], 0)) \o ":" \o Pad2(IntOfDigits(parts[2], 0))
        ELSE s

\* (_cell(row, i) or ""): a missing cell and the number 0 give ""
NameCell(row, i) ==
    LET v == _cell(row, i)
    IN  IF v.k = "none" \/ (v.k = "num" /\ v.n = 0) THEN ""
        ELSE IF v.k = "num" THEN Str(v)
        ELSE v.s

\* the first division of the mapping, in insertion order, that lists both
\* players (both) or one of them
RECURSIVE FirstListing(_, _, _, _, _)
FirstListing(mapping, j1, j2, both, i) ==
    IF i > Len(mapping) THEN ""
    ELSE LET lst == Range(mapping[i].players)
         IN  IF (IF both THEN j1 \in lst /\ j2 \in lst ELSE j1 \in lst \/ j2 \in lst)
             THEN mapping[i].div
             ELSE FirstListing(mapping, j1, j2, both, i + 1)

\* the division deduced from the roster: the first one listing both players,
\* else the first one listing either, else ""
InferDivision(j1, j2, players_by_div) ==
    IF FirstListing(players_by_div, j1, j2, TRUE, 1) # ""
    THEN FirstListing(players_by_div, j1, j2, TRUE, 1)
    ELSE FirstListing(players_by_div, j1, j2, FALSE, 1)

\* the dict of one row
ResultsRow(row, layout, players_by_div) ==
    LET raw_div == _cell(row, layout.div)
        j1 == NameCell(row, layout.j1)
        j2 == NameCell(row, layout.j2)
        tall == _tally_match(row, layout.j1, layout.j2, layout.sets_start)
        named == raw_div.k = "str" /\ raw_div.s # "" /\ ~IsDigitCp(CodePoints(raw_div.s))
    IN  [fecha |-> _excel_date_to_str(_cell(row, layout.date)),
         hora |-> IF layout.time >= 0 THEN _excel_time_to_str(_cell(row, layout.time))
                  ELSE "",
         division |-> IF named THEN raw_div.s ELSE InferDivision(j1, j2, players_by_div),
         j1 |-> j1,
         j2 |-> j2,
         resumen |-> IF tall.ok THEN ToString(tall.sets1) \o "-" \o ToString(tall.sets2)
                     ELSE ""]

\* one dict per row of the sheet, in sheet order
results_rows(df, players_by_div) ==
    [i \in 1..Len(df) |-> ResultsRow(df[i], _infer_layout(df), players_by_div)]

ResultsRows(season_label) ==
    LET df == _load_results_for(season_label)
    IN  /\ _results_by_season' = ResultsMemo(season_label)
        /\ _players_by_season' = IF df = <<>> THEN _players_by_season
                                 ELSE PlayersMemo(season_label)
        /\ resp' = [op |-> "results_rows", season |-> season_label, division |-> "",
                    arg |-> <<>>,
                    out |-> IF df = <<>> THEN <<>>
                            ELSE results_rows(df, _load_players_for(season_label))]
        /\ UNCHANGED <<PENDING_FILE, APPROVED_FILE, requests, resultados, jugadores,
                       _season_names>>

(***************************************************************************)
(* The notification readers.  They read the workbooks themselves, without  *)
(* fillna: a missing cell is NaN, whose str() is "nan".  A date is the day *)
(* of January 2025 it falls on; NoDate stands for None.                    *)
(***************************************************************************)
NoDate == 0

\* str(x) of a cell read without fillna
StrNaN(c) == IF c.k = "na" THEN "nan" ELSE Str(c)

\* the day a text names, NoDate where it parses as no date
DayOfText(s) ==
    IF ParsedDate(s) = "" THEN NoDate
    ELSE CHOOSE d \in Days : IsoDate(d) = ParsedDate(s)

\* keeps the elements of a list of strings that are not in drop
RECURSIVE Without(_, _)
Without(list, drop) ==
    IF list = <<>> THEN <<>>
    ELSE IF Head(list) \in drop THEN Without(Tail(list), drop)
    ELSE <<Head(list)>> \o Without(Tail(list), drop)

\* the dict name -> label filled column by column: a later column overwrites
RECURSIVE FillMap(_, _, _, _)
FillMap(colNames, labels, i, m) ==
    IF i > Len(labels) \/ i > Len(colNames) THEN m
    ELSE FillMap(colNames, labels, i + 1,
                 [n \in Range(colNames[i]) |-> labels[i]] @@ m)

\* dict.get(name, "")
Get(m, name) == IF name \in DOMAIN m THEN m[name] ELSE ""

(***************************************************************************)
(* extras.py                                                               *)
(***************************************************************************)
_safe_str(x) ==
    IF x.k = "str" THEN Strip(x.s)
    ELSE IF x.k \in {"na", "none"} THEN ""
    ELSE Strip(Str(x))

div_names == <<"División 1", "División 2", "División 3 - A", "División 3 - B">>

\* f is the JUGADORES T5 workbook, read without header
_load_players_map(f) ==
    FillMap([i \in 1..Len(f.cols) |->
                Without([k \in 1..Len(f.cols[i]) |-> _safe_str(f.cols[i][k])], {""})],
            div_names, 1, <<>>)

\* day 1 of the model's month is Excel's serial 45658
ExcelDayOne == 45658

_excel_date_to_date(x) ==
    IF x.k = "ts" THEN x.n
    ELSE IF x.k = "num" THEN (x.n \div 2) - ExcelDayOne + 1
    ELSE DayOfText(_safe_str(x))

\* a number, or a string of digits, in one of the columns 4..13
_row_has_result(row) ==
    \E idx \in 4..13 :
        LET val == CellAt(row, idx)
        IN  val.k = "num" \/ IsDigitCp(CodePoints(_safe_str(val)))

_detect_division(j1, j2, pmap) ==
    LET d1 == Get(pmap, j1)
        d2 == Get(pmap, j2)
    IN  IF d1 # "" /\ d2 # "" /\ d1 # d2 THEN d1
        ELSE IF d1 # "" THEN d1
        ELSE IF d2 # "" THEN d2
        ELSE "División ?"

\* strftime("%d/%m/%Y")
DmyDate(d) == "0" \o ToString(d) \o "/01/2025"

\* the loop over df.iterrows(): the items of the rows i.., in sheet order, whose
\* date is before today (late) or is today
RECURSIVE ExtrasItems(_, _, _, _, _)
ExtrasItems(df, pmap, today, late, i) ==
    IF i > Len(df) THEN <<>>
    ELSE LET row == df[i]
             fecha == _excel_date_to_date(CellAt(row, 0))
             j1 == _safe_str(IF Len(row) > 2 THEN row[3] ELSE Txt(""))
             j2 == _safe_str(IF Len(row) > 3 THEN row[4] ELSE Txt(""))
             rest == ExtrasItems(df, pmap, today, late, i + 1)
         IN  IF fecha = NoDate \/ j1 = "" \/ j2 = "" THEN rest
             ELSE IF _row_has_result(row) THEN rest
             ELSE IF (IF late THEN fecha < today ELSE fecha = today)
             THEN <<[fecha |-> DmyDate(fecha), dt |-> fecha, hora |-> "",
                     division |-> _detect_division(j1, j2, pmap),
                     j1 |-> j1, j2 |-> j2]>> \o rest
             ELSE rest

\* (today_matches, delayed_matches) of the T5 workbooks; a missing workbook
\* raises
get_today_and_delayed_matches(jug, res, today) ==
    IF ~jug.exists \/ ~res.exists
    THEN [raised |-> TRUE, today |-> <<>>, delayed |-> <<>>]
    ELSE LET pmap == _load_players_map(jug)
         IN  [raised |-> FALSE,
              today |-> ExtrasItems(res.rows, pmap, today, FALSE, 1),
              delayed |-> ExtrasItems(res.rows, pmap, today, TRUE, 1)]

(***************************************************************************)
(* bot_matches.py                                                          *)
(***************************************************************************)
\* pd.to_datetime of a number counts nanoseconds from 1970-01-01, which is
\* day -20088 of the model's month
EpochDay == -20088

_to_date(x) ==
    IF x.k \in {"na", "none"} THEN NoDate
    ELSE IF x.k = "ts" THEN x.n
    ELSE IF x.k = "num" THEN EpochDay
    ELSE IF x.k = "time" THEN NoDate
    ELSE DayOfText(Strip(x.s))

_clean_name(x) == IF x.k \in {"na", "none"} THEN "" ELSE Strip(Str(x))

\* int(s) of a set cell, or None: a number is truncated, a text must be an integer
IntOrNone(c) ==
    IF c.k = "num" THEN Num(2 * (c.n \div 2))
    ELSE IF c.k = "str" /\ IsDigitCp(CodePoints(Strip(c.s)))
    THEN Num(2 * IntOfDigits(CodePoints(Strip(c.s)), 0))
    ELSE None

_all_sets_empty(sets) ==
    \A k \in 1..Len(sets) : sets[k][1].k = "none" /\ sets[k][2].k = "none"

div_labels == <<"División 1", "División 2", "División 3 - A", "División 3 - B">>

\* f is the JUGADORES T5 workbook, read without header and filled with ""
_read_jugadores_div_map(f) ==
    IF ~f.exists THEN <<>>
    ELSE FillMap([i \in 1..Len(f.cols) |->
                     Without([k \in 1..Len(f.cols[i]) |->
                                 IF f.cols[i][k].k = "na" THEN ""
                                 ELSE Strip(Str(f.cols[i][k]))], {"", "nan"})],
                 div_labels, 1, <<>>)

_deduce_division(j1, j2, player2div) ==
    LET d1 == Get(player2div, j1)
        d2 == Get(player2div, j2)
    IN  IF d1 # "" THEN d1 ELSE IF d2 # "" THEN d2 ELSE "Desconocida"

\* the pairs (4,5), (6,7), ... that lie within the row
RowSets(row) ==
    LET n == Cardinality({k \in 0..(NumSets - 1) : 4 + 2 * k + 1 < Len(row)})
    IN  [k \in 1..n |-> <<IntOrNone(row[4 + 2 * (k - 1) + 1]),
                          IntOrNone(row[4 + 2 * (k - 1) + 2])>>]

\* the Match records of the rows i.. of the sheet
RECURSIVE _read_resultados(_, _, _)
_read_resultados(df, player2div, i) ==
    IF i > Len(df) THEN <<>>
    ELSE LET row == df[i]
             fecha == _to_date(row[1])
             j1 == _clean_name(row[3])
             j2 == _clean_name(row[4])
             rest == _read_resultados(df, player2div, i + 1)
         IN  IF j1 = "" /\ j2 = "" THEN rest
             ELSE IF fecha = NoDate THEN rest
             ELSE <<[dt |-> fecha, fecha |-> IsoDate(fecha), hora |-> "",
                     division |-> _deduce_division(j1, j2, player2div),
                     j1 |-> j1, j2 |-> j2, sets |-> RowSets(row)]>> \o rest

\* < on the key (dt, division, j1, j2)
MatchKeyLess(a, b) ==
    IF a.dt # b.dt THEN a.dt < b.dt
    ELSE IF a.division # b.division THEN NameLess(a.division, b.division)
    ELSE IF a.j1 # b.j1 THEN NameLess(a.j1, b.j1)
    ELSE NameLess(a.j2, b.j2)

\* list.sort(key=...): stable
RECURSIVE InsertMatch(_, _)
InsertMatch(x, sorted) ==
    IF sorted = <<>> THEN <<x>>
    ELSE IF MatchKeyLess(x, Head(sorted)) THEN <<x>> \o sorted
    ELSE <<Head(sorted)>> \o InsertMatch(x, Tail(sorted))

RECURSIVE SortMatches(_, _)
SortMatches(list, i) ==
    IF i = 0 THEN <<>> ELSE InsertMatch(list[i], SortMatches(list, i - 1))

\* the matches of the list, in list order, with all sets empty and a date
\* before today (late) or today
RECURSIVE Unplayed(_, _, _, _)
Unplayed(matches, today, late, i) ==
    IF i > Len(matches) THEN <<>>
    ELSE IF /\ _all_sets_empty(matches[i].sets)
            /\ (IF late THEN matches[i].dt < today ELSE matches[i].dt = today)
    THEN <<matches[i]>> \o Unplayed(matches, today, late, i + 1)
    ELSE Unplayed(matches, today, late, i + 1)

_split_matches(matches, today) ==
    LET delayed == Unplayed(matches, today, TRUE, 1)
        today_list == Unplayed(matches, today, FALSE, 1)
    IN  [delayed |-> SortMatches(delayed, Len(delayed)),
         today |-> SortMatches(today_list, Len(today_list))]

\* run_once up to the split: the two lists the messages are built from
run_once(jug, res, today) ==
    IF ~res.exists THEN [raised |-> FALSE, today |-> <<>>, delayed |-> <<>>]
    ELSE LET s == _split_matches(
                     _read_resultados(res.rows, _read_jugadores_div_map(jug), 1), today)
         IN  [raised |-> FALSE, today |-> s.today, delayed |-> s.delayed]

(***************************************************************************)
(* bot_matchesT6.py.  Both workbooks are read with header=0: the first row *)
(* of a sheet is taken for the column names and is no row of the table.    *)
(***************************************************************************)
_norm_name(s) == Lower(Strip(s))

bot_looks_like_time(v) ==
    IF v.k = "none" THEN FALSE
    ELSE IF v.k \in {"time", "ts"} THEN TRUE
    ELSE IF Strip(StrNaN(v)) = "" THEN FALSE
    ELSE TimeText(Strip(StrNaN(v)))

BotLayoutT6 == [date |-> 0, time |-> 1, div |-> 2, j1 |-> 3, j2 |-> 4, sets |-> 5]
BotLayoutLegacy == [date |-> 0, time |-> -1, div |-> 1, j1 |-> 2, j2 |-> 3, sets |-> 4]

bot_infer_layout(df) ==
    IF \E i \in 1..Min(Len(df), SampleRows) : bot_looks_like_time(CellAt(df[i], 1))
    THEN BotLayoutT6 ELSE BotLayoutLegacy

bot_norm_date(ts) ==
    IF ts.k \in {"na", "none"} THEN NoDate
    ELSE IF ts.k = "ts" THEN ts.n
    ELSE IF ts.k = "num" THEN EpochDay
    ELSE IF ts.k = "time" THEN NoDate
    ELSE DayOfText(Strip(ts.s))

_row_is_unplayed(row, sets_start) ==
    \A i \in sets_start..(sets_start + 9) :
        ~(i < Len(row) /\ row[i + 1].k # "na" /\ Strip(StrNaN(row[i + 1])) # "")

\* f is the JUGADORES workbook of the season; the first cell of every column is
\* the header
_read_players_map(f) ==
    LET ncols == Len(f.cols)
        labels == IF ncols >= 5 THEN Names5 ELSE IF ncols = 4 THEN Names4 ELSE Names3
    IN  FillMap([i \in 1..ncols |->
                    Without([k \in 1..(Len(f.cols[i]) - 1) |->
                                IF f.cols[i][k + 1].k = "na" THEN ""
                                ELSE _norm_name(Str(f.cols[i][k + 1]))], {""})],
                labels, 1, <<>>)

_division_for_players(pmap, j1, j2) ==
    IF Get(pmap, _norm_name(j1)) # "" THEN Get(pmap, _norm_name(j1))
    ELSE IF Get(pmap, _norm_name(j2)) # "" THEN Get(pmap, _norm_name(j2))
    ELSE "Desconocida"

\* pd.to_datetime(v).strftime("%H:%M"), or str(v) where that raises
BotHora(v) ==
    IF ~bot_looks_like_time(v) THEN ""
    ELSE IF v.k = "time" THEN Str(v)
    ELSE IF v.k = "ts" THEN "00:00"
    ELSE _excel_time_to_str(Txt(Strip(v.s)))

\* the items of the rows i.. of the table, in table order, dated before today
\* (late) or today
RECURSIVE BotItems(_, _, _, _, _, _)
BotItems(df, layout, pmap, today, late, i) ==
    IF i > Len(df) THEN <<>>
    ELSE LET row == df[i]
             fecha == bot_norm_date(row[layout.date + 1])
             j1 == Strip(StrNaN(row[layout.j1 + 1]))
             j2 == Strip(StrNaN(row[layout.j2 + 1]))
             rest == BotItems(df, layout, pmap, today, late, i + 1)
         IN  IF fecha = NoDate THEN rest
             ELSE IF j1 = "" \/ j2 = "" THEN rest
             ELSE IF /\ _row_is_unplayed(row, layout.sets)
                     /\ (IF late THEN fecha < today ELSE fecha = today)
             THEN <<[fecha |-> IsoDate(fecha), dt |-> fecha,
                     hora |-> IF layout.time >= 0 THEN BotHora(row[layout.time + 1])
                              ELSE "",
                     division |-> _division_for_players(pmap, j1, j2),
                     j1 |-> j1, j2 |-> j2]>> \o rest
             ELSE rest

\* < on the key (fecha, hora)
BotKeyLess(a, b) ==
    IF a.fecha # b.fecha THEN NameLess(a.fecha, b.fecha) ELSE NameLess(a.hora, b.hora)

RECURSIVE InsertItem(_, _)
InsertItem(x, sorted) ==
    IF sorted = <<>> THEN <<x>>
    ELSE IF BotKeyLess(x, Head(sorted)) THEN <<x>> \o sorted
    ELSE <<Head(sorted)>> \o InsertItem(x, Tail(sorted))

RECURSIVE SortItems(_, _)
SortItems(list, i) ==
    IF i = 0 THEN <<>> ELSE InsertItem(list[i], SortItems(list, i - 1))

\* (delayed, today_list) of the season's workbooks; a missing workbook raises
_collect_matches(jug, res, today) ==
    IF ~jug.exists \/ ~res.exists \/ res.rows = <<>>
    THEN [raised |-> ~jug.exists \/ ~res.exists, today |-> <<>>, delayed |-> <<>>]
    ELSE LET df == Tail(res.rows)
             layout == bot_infer_layout(df)
             pmap == _read_players_map(jug)
             delayed == BotItems(df, layout, pmap, today, TRUE, 1)
             today_list == BotItems(df, layout, pmap, today, FALSE, 1)
         IN  [raised |-> FALSE,
              today |-> SortItems(today_list, Len(today_list)),
              delayed |-> SortItems(delayed, Len(delayed))]

(***************************************************************************)
(* SpecMatches: the readers of the match rows, over a season-5 workbook in *)
(* the legacy layout and a season-6 workbook with the time column holding  *)
(* the same matches.  The initial state holds the call about to run.       *)
(***************************************************************************)
MaxRowsMatches == 2  \* rows of a results sheet (SpecMatches)

\* date cells: three days and an empty cell
DateCells == {DateCell(1), DateCell(2), DateCell(3), NA}
\* the two name cells of a row: both given, both empty, the second empty
NameCells == {<<Txt("ana"), Txt("Bob")>>, <<Txt("Cara"), Txt("ana")>>, <<NA, NA>>,
              <<Txt("Cara"), NA>>}
\* no score, a one-sided set, a set won 2-0
ScoreCells == {<<>>, <<<<Num(4), NA>>>>, <<<<Num(4), Num(0)>>>>}

\* a match as a row of the legacy sheet and of the sheet with a time column
SheetRow(time, m) ==
    (IF time THEN <<m[1], TimeCell(540), Num(2)>> ELSE <<m[1], Num(2)>>)
        \o m[2] \o SetCells(m[3])

MatchLists == SeqsUpTo(DateCells \X NameCells \X ScoreCells, MaxRowsMatches)

MatchesFile(time, list) ==
    [exists |-> TRUE, twice |-> FALSE,
     rows |-> [i \in 1..Len(list) |-> SheetRow(time, list[i])]]

MatchRosters ==
    {NoRoster, RosterFile(<<"Cara", "Bob">>, <<"ana">>), RosterFile(<<"ana", "Bob">>, <<>>),
     RosterFile(<<"Cara">>, <<"Bob", "ana">>)}

\* the days a bot is run on
AsOfDays == {2, 3}

MatchCalls ==
    {[op |-> "call results_rows", season |-> SeasonLabel(n), division |-> "",
      arg |-> 0, out |-> <<>>] : n \in {5, 6}}
    \cup {[op |-> o, season |-> "", division |-> "", arg |-> t, out |-> <<>>] :
            o \in {"call run_once", "call get_today_and_delayed_matches",
                   "call _collect_matches"},
            t \in AsOfDays}

InitMatches ==
    /\ \E list \in MatchLists :
          resultados = [n \in SeasonNumbers |->
                           IF n = 5 THEN MatchesFile(FALSE, list)
                           ELSE IF n = 6 THEN MatchesFile(TRUE, list)
                           ELSE NoResults]
    /\ \E f \in MatchRosters :
          jugadores = [n \in SeasonNumbers |-> IF n \in {5, 6} THEN f ELSE NoRoster]
    /\ _season_names = _discover(resultados)
    /\ _players_by_season = EmptyMemo
    /\ _results_by_season = EmptyMemo
    /\ NoSubmissions
    /\ resp \in MatchCalls

CallResultsRows ==
    /\ resp.op = "call results_rows"
    /\ ResultsRows(resp.season)

\* bot_matches.py reads the season-5 workbooks
RunOnce ==
    /\ resp.op = "call run_once"
    /\ resp' = [resp EXCEPT !.op = "run_once",
                            !.out = run_once(jugadores[5], resultados[5], resp.arg)]
    /\ UNCHANGED <<PENDING_FILE, APPROVED_FILE, requests, resultados, jugadores,
                   _season_names, _players_by_season, _results_by_season>>

\* extras.py reads the season-5 workbooks
GetTodayAndDelayedMatches ==
    /\ resp.op = "call get_today_and_delayed_matches"
    /\ resp' = [resp EXCEPT
                  !.op = "get_today_and_delayed_matches",
                  !.out = get_today_and_delayed_matches(jugadores[5], resultados[5],
                                                        resp.arg)]
    /\ UNCHANGED <<PENDING_FILE, APPROVED_FILE, requests, resultados, jugadores,
                   _season_names, _players_by_season, _results_by_season>>

\* bot_matchesT6.py reads the workbooks of SEASON_NAME, season 6
CollectMatches ==
    /\ resp.op = "call _collect_matches"
    /\ resp' = [resp EXCEPT !.op = "_collect_matches",
                            !.out = _collect_matches(jugadores[6], resultados[6], resp.arg)]
    /\ UNCHANGED <<PENDING_FILE, APPROVED_FILE, requests, resultados, jugadores,
                   _season_names, _players_by_season, _results_by_season>>

NextMatches == CallResultsRows \/ RunOnce \/ GetTodayAndDelayedMatches \/ CollectMatches

SpecMatches == InitMatches /\ [][NextMatches]_vars

(***************************************************************************)
(* Claims on the match readers (SpecMatches)                               *)
(***************************************************************************)
MatchOps == {"results_rows", "run_once", "get_today_and_delayed_matches", "_collect_matches"}
NotifyOps == MatchOps \ {"results_rows"}

\* the records a reader has returned
Returned ==
    IF resp.op = "results_rows" THEN Range(resp.out)
    ELSE IF resp.op \in NotifyOps THEN Range(resp.out.today) \cup Range(resp.out.delayed)
    ELSE {}

\* the division the reader's own division index holds for a player, "" for none
IndexedDivision(name) ==
    IF resp.op = "results_rows"
    THEN FirstListing(ReadPlayers(jugadores, resp.season), name, name, TRUE, 1)
    ELSE IF resp.op = "run_once" THEN Get(_read_jugadores_div_map(jugadores[5]), name)
    ELSE IF resp.op = "get_today_and_delayed_matches"
    THEN Get(_load_players_map(jugadores[5]), name)
    ELSE Get(_read_players_map(jugadores[6]), _norm_name(name))

\* player 1's division when it is found, else player 2's, else the sentinel
ResolvedDivision(d1, d2) ==
    IF d1 # "" THEN d1 ELSE IF d2 # "" THEN d2 ELSE "Desconocida"

\* C11: every reader resolves the division of a match from its division index
\* by the same rule: the shared division when both players are found in one,
\* player 1's division when they are found in different ones, the division of
\* the one player found, and the sentinel "Desconocida" when neither is found.
C11_DivisionResolution ==
    \A m \in Returned :
        m.division = ResolvedDivision(IndexedDivision(m.j1), IndexedDivision(m.j2))

\* the table a reader reads: the season-5 sheet, or the season-6 sheet, which
\* _collect_matches reads below its header line
TableRead ==
    IF resp.op = "_collect_matches"
    THEN (IF resultados[6].rows = <<>> THEN <<>> ELSE Tail(resultados[6].rows))
    ELSE IF resp.op = "results_rows" THEN resultados[_label_to_Tn(resp.season)].rows
    ELSE resultados[5].rows

\* the day, and the two names, a row of the table holds
RowDay(row, layout) == DayOfText(_excel_date_to_str(_cell(row, layout.date)))
RowNames(row, layout) == <<NameCell(row, layout.j1), NameCell(row, layout.j2)>>

\* a row is a match when its date parses and it names a player
IsMatchRow(row, layout) ==
    RowDay(row, layout) # NoDate /\ RowNames(row, layout) # <<"", "">>

\* the rows of the table that are matches without a fully-scored set, dated
\* before the day asked for (late) or on it
PendingRows(df, today, late) ==
    {i \in 1..Len(df) :
        LET layout == _infer_layout(df)
        IN  /\ IsMatchRow(df[i], layout)
            /\ ~_played_row(df[i], layout.sets_start)
            /\ (IF late THEN RowDay(df[i], layout) < today
                ELSE RowDay(df[i], layout) = today)}

\* the item is the match of row i
ItemOfRow(m, df, i) ==
    /\ m.dt = RowDay(df[i], _infer_layout(df))
    /\ <<m.j1, m.j2>> = RowNames(df[i], _infer_layout(df))

\* the list holds exactly the matches of the rows, sorted by
\* (date, division, player1, player2)
IsSplitOf(list, df, rows) ==
    /\ Len(list) = Cardinality(rows)
    /\ \A i \in rows : \E k \in 1..Len(list) : ItemOfRow(list[k], df, i)
    /\ \A k \in 1..Len(list) : \E i \in rows : ItemOfRow(list[k], df, i)
    /\ \A k \in 1..(Len(list) - 1) : ~MatchKeyLess(list[k + 1], list[k])

\* C16: the notification split returns exactly the matches with no
\* fully-scored set: those dated before the day asked for are overdue, those
\* dated on it are due today, and each list is sorted by
\* (date, division, player1, player2).
C16_UnplayedSplit ==
    (resp.op \in NotifyOps /\ ~resp.out.raised) =>
        /\ IsSplitOf(resp.out.delayed, TableRead, PendingRows(TableRead, resp.arg, TRUE))
        /\ IsSplitOf(resp.out.today, TableRead, PendingRows(TableRead, resp.arg, FALSE))

\* the rows of the table that are rejected: the date does not parse, or both
\* names are missing
RejectedRows(df) == {i \in 1..Len(df) : ~IsMatchRow(df[i], _infer_layout(df))}

\* the record stems from row i: the same date and the same two names
RecordOfRow(m, df, i) ==
    /\ m.fecha = _excel_date_to_str(_cell(df[i], _infer_layout(df).date))
    /\ <<m.j1, m.j2>> = RowNames(df[i], _infer_layout(df))

\* C17: a row whose date does not parse, or whose two names are both missing,
\* is skipped: results_rows returns one record per remaining row, and every
\* item of a notification reader stems from a row that is not rejected.
C17_RowRejection ==
    LET df == TableRead
        kept == (1..Len(df)) \ RejectedRows(df)
    IN  /\ resp.op = "results_rows" =>
              /\ Len(resp.out) = Cardinality(kept)
              /\ \A m \in Returned : \E i \in kept : RecordOfRow(m, df, i)
        /\ (resp.op \in NotifyOps /\ ~resp.out.raised) =>
              \A m \in Returned : \E i \in kept : ItemOfRow(m, df, i)

(***************************************************************************)
(* SpecDiscover: the object over a data directory in which each of the     *)
(* seasons 5, 6, 9, 10 has no RESULTADOS workbook, one, or one of each     *)
(* extension, and has a JUGADORES workbook or not.                         *)
(***************************************************************************)
OneMatch ==
    [exists |-> TRUE, twice |-> FALSE,
     rows |-> <<LegacyRow("ana", "Bob", <<<<Num(4), Num(0)>>>>)>>]

DiscoverResults == {NoResults, OneMatch, [OneMatch EXCEPT !.twice = TRUE]}
DiscoverRosters == {NoRoster, RosterFile(<<"ana">>, <<"Bob">>)}

InitDiscover ==
    /\ resultados \in [SeasonNumbers -> DiscoverResults]
    /\ jugadores \in [SeasonNumbers -> DiscoverRosters]
    /\ InitObject

\* the web layer asks for the divisions of a season that seasons() lists
NextDiscover == Seasons \/ \E l \in Range(_season_names) : DivisionsFor(l)

SpecDiscover == InitDiscover /\ [][NextDiscover]_vars

\* the seasons with a RESULTADOS workbook
Discovered == {n \in SeasonNumbers : resultados[n].exists}

\* C12: seasons() returns "(General)" first, then one label "Temporada N" per
\* discovered season, in strictly increasing order of N (Temporada 9 before
\* Temporada 10), no label repeated.
C12_SeasonOrder ==
    resp.op = "seasons" =>
        LET labels == Tail(resp.out)
        IN  /\ Head(resp.out) = "(General)"
            /\ Len(labels) = Cardinality(Discovered)
            /\ Range(labels) = {SeasonLabel(n) : n \in Discovered}
            /\ \A i, j \in 1..Len(labels) :
                  i < j => _label_to_Tn(labels[i]) < _label_to_Tn(labels[j])

\* C13: a season is listed by seasons() only if both its RESULTADOS workbook
\* and its JUGADORES workbook are present; a season without roster workbook is
\* not listed.
C13_SeasonDiscovery ==
    resp.op = "seasons" =>
        \A l \in Range(Tail(resp.out)) :
            resultados[_label_to_Tn(l)].exists /\ jugadores[_label_to_Tn(l)].exists

(***************************************************************************)
(* SpecRoster: the object over a season-6 roster sheet of 1..MaxRosterCols *)
(* columns of two cells each.                                              *)
(***************************************************************************)
MaxRosterCols == 6  \* columns of a roster sheet (SpecRoster)

\* two names (one with a trailing blank), a name under an empty cell, an
\* empty column, a name under a cell of blanks
RosterSheetColumns ==
    {<<Txt("ana"), Txt("Bob ")>>, <<NA, Txt("Cara")>>, <<NA, NA>>, <<Txt(" "), Txt("ana")>>}

RosterSheets ==
    {[exists |-> TRUE, cols |-> c] :
        c \in UNION {[1..n -> RosterSheetColumns] : n \in 1..MaxRosterCols}}

InitRoster ==
    /\ resultados = [n \in SeasonNumbers |-> IF n = 6 THEN OneMatch ELSE NoResults]
    /\ \E f \in RosterSheets :
          jugadores = [n \in SeasonNumbers |-> IF n = 6 THEN f ELSE NoRoster]
    /\ InitObject

NextRoster == Seasons \/ \E l \in Range(_season_names) : DivisionsFor(l)

SpecRoster == InitRoster /\ [][NextRoster]_vars

\* the label set the number of columns chooses
LabelSet(c) == IF c >= 5 THEN Names5 ELSE IF c = 4 THEN Names4 ELSE Names3

\* the names in the non-empty cells of a sheet column, in row order
CellNames(col) ==
    LET filled == {k \in 1..Len(col) : col[k].k # "na" /\ Strip(Str(col[k])) # ""}
    IN  SubList([k \in 1..Len(col) |-> Strip(Str(col[k]))], filled, 1)

\* the roster sheet, and the mapping, of the season just asked for
AskedSheet == jugadores[_label_to_Tn(resp.season)]
AskedMapping == _players_by_season[resp.season]

\* C14: column i of a roster sheet with c columns is mapped to the i-th label
\* of the label set chosen by c (3: División 1, 2, 3; 4: División 1, 2, 3 - A,
\* 3 - B; 5 or more: División 1, 2, 3, 4 - A, 4 - B); a division's list holds
\* exactly the non-empty cells of its column in row order (a column without
\* names gives no division), and divisions_for returns the labels in column
\* order.
C14_RosterIndex ==
    resp.op = "divisions_for" =>
        LET cols == AskedSheet.cols
            labels == LabelSet(Len(cols))
            used == {i \in 1..Min(Len(cols), Len(labels)) : CellNames(cols[i]) # <<>>}
        IN  /\ \A i \in used :
                  /\ HasDiv(AskedMapping, labels[i])
                  /\ PlayersOf(AskedMapping, labels[i]) = CellNames(cols[i])
            /\ resp.out = SubList(labels, used, 1)

\* a sheet of four columns whose fourth column holds names, and one of six
C14_Witness ==
    /\ resp.op = "divisions_for"
    /\ Len(AskedSheet.cols) >= 4
    /\ "División 3 - B" \in Range(resp.out) \/ "División 4 - B" \in Range(resp.out)
    /\ \E i \in 1..Len(AskedMapping) : AskedMapping[i].players = <<"ana", "Bob">>

(***************************************************************************)
(* Claim on the players a table has rows for (Spec)                        *)
(***************************************************************************)
\* the players of row i, and those of them the division's roster does not list
RowPlayers(df, i) == {RowJ1(df, i), RowJ2(df, i)}
Unlisted(df, i) == RowPlayers(df, i) \ RespPlayers

sub_looks_like_time(v) ==
    IF v.k \in {"na", "none"} THEN FALSE
    ELSE IF v.k \in {"time", "ts"} THEN TRUE
    ELSE IF Strip(Str(v)) = "" THEN FALSE
    ELSE TimeText(Strip(Str(v)))

LayoutCheckRows == 20

\* the 1-based columns of the sheet
SheetLayoutT6 == [FECHA |-> 1, HORA |-> 2, DIV |-> 3, J1 |-> 4, J2 |-> 5, SETS_START |-> 6]
SheetLayoutLegacy == [FECHA |-> 1, HORA |-> 0, DIV |-> 2, J1 |-> 3, J2 |-> 4, SETS_START |-> 5]

\* ws.cell(row=r, column=c).value
WsCell(ws, r, c) == IF c <= Len(ws[r]) THEN ws[r][c] ELSE NA

_infer_results_layout_openpyxl(ws) ==
    IF \E r \in 1..Min(Len(ws), LayoutCheckRows) : sub_looks_like_time(WsCell(ws, r, 2))
    THEN SheetLayoutT6 ELSE SheetLayoutLegacy

(***************************************************************************)
(* SpecLayout: _infer_layout applied to a sheet of up to MaxSheetRows rows *)
(* whose second column holds a division number, except in two rows.        *)
(***************************************************************************)
MaxSheetRows == 17  \* rows of a sheet (SpecLayout)

\* what the second column may hold in the first marked row
SecondCells ==
    {TimeCell(540), DateCell(1), NA, Num(4), Txt("09:00"), Txt("9:00"), Txt("09:00:00"),
     Txt("1:2:x"), Txt("12:x"), Txt("a:b"), Txt(":"), Txt("ana"), Txt(""), Txt(" ")}

\* row p holds v in the second column, row q holds w, the others a number
LayoutSheet(n, p, v, q, w) ==
    [i \in 1..n |->
        <<DateCell(1), IF i = p THEN v ELSE IF i = q THEN w ELSE Num(4),
          Txt("ana"), Txt("Bob")>>]

\* a sheet with the date column only
NarrowSheet(n) == [i \in 1..n |-> <<DateCell(1)>>]

LayoutSheets ==
    {LayoutSheet(n, p, v, q, w) :
        n \in 1..MaxSheetRows, p \in 1..MaxSheetRows, v \in SecondCells,
        q \in 1..MaxSheetRows, w \in {Num(4), TimeCell(540)}}
    \cup {NarrowSheet(n) : n \in 0..MaxSheetRows}

InitLayout ==
    /\ resultados = [n \in SeasonNumbers |-> NoResults]
    /\ jugadores = [n \in SeasonNumbers |-> NoRoster]
    /\ _season_names = <<>>
    /\ _players_by_season = EmptyMemo
    /\ _results_by_season = EmptyMemo
    /\ NoSubmissions
    /\ \E df \in LayoutSheets :
          resp = [op |-> "call _infer_layout", season |-> "", division |-> "",
                  arg |-> df, out |-> <<>>]

InferLayout ==
    /\ resp.op = "call _infer_layout"
    /\ resp' = [resp EXCEPT !.op = "_infer_layout", !.out = _infer_layout(resp.arg)]
    /\ UNCHANGED <<PENDING_FILE, APPROVED_FILE, requests, resultados, jugadores,
                   _season_names, _players_by_season, _results_by_season>>

\* the approval writer infers the layout of the sheet the reader was given
InferResultsLayout ==
    /\ resp.op = "_infer_layout"
    /\ resp' = [resp EXCEPT !.op = "_infer_results_layout_openpyxl",
                            !.out = [reader |-> resp.out,
                                     writer |-> _infer_results_layout_openpyxl(resp.arg)]]
    /\ UNCHANGED <<PENDING_FILE, APPROVED_FILE, requests, resultados, jugadores,
                   _season_names, _players_by_season, _results_by_season>>

NextLayout == InferLayout \/ InferResultsLayout

SpecLayout == InitLayout /\ [][NextLayout]_vars

\* the texts of SecondCells whose first two colon-separated parts are digits
TimeLikeTexts == {"09:00", "9:00", "09:00:00", "1:2:x"}

\* a native time or datetime value, or a time-like text
TimeLikeValue(c) == c.k \in {"time", "ts"} \/ (c.k = "str" /\ c.s \in TimeLikeTexts)

\* row i of the sheet has a time-like value in its second column
TimeLikeRow(df, i) == Len(df[i]) > 1 /\ TimeLikeValue(df[i][2])

\* C18: _infer_layout returns the layout with the time column (date 0, time 1,
\* division 2, j1 3, j2 4, sets from 5) iff one of the first 15 rows has a
\* time-like value in the second column, the legacy layout (date 0, division 1,
\* j1 2, j2 3, sets from 4) otherwise; the rows after the 15th have no
\* influence.
C18_LayoutDetection ==
    resp.op = "_infer_layout" =>
        LET df == resp.arg
            first == SubSeq(df, 1, Min(Len(df), 15))
        IN  /\ resp.out =
                  IF \E i \in 1..Len(first) : TimeLikeRow(first, i)
                  THEN [date |-> 0, time |-> 1, div |-> 2, j1 |-> 3, j2 |-> 4,
                        sets_start |-> 5]
                  ELSE [date |-> 0, time |-> -1, div |-> 1, j1 |-> 2, j2 |-> 3,
                        sets_start |-> 4]
            /\ resp.out = _infer_layout(first)

\* C18 witness: the only time-like value of the sheet is in row 16, and the
\* layout returned is the legacy one.
C18_Witness ==
    /\ resp.op = "_infer_layout"
    /\ Len(resp.arg) >= 16
    /\ TimeLikeRow(resp.arg, 16)
    /\ \A i \in 1..15 : ~TimeLikeRow(resp.arg, i)
    /\ resp.out.time = -1

(***************************************************************************)
(* submissions.py: approving a submitted result.  A record of the pending  *)
(* queue has the fields mid, season, date, division, j1, j2 and sets (five *)
(* pairs of form texts).  openpyxl gives None for an empty cell.           *)
(***************************************************************************)
\* re.search(r"(\d+)", season): the first run of digits, <<>> for no match
FirstDigits(cp) ==
    LET at == {i \in 1..Len(cp) : IsDigitCp(<<cp[i]>>)}
    IN  IF at = {} THEN <<>>
        ELSE LET a == CHOOSE i \in at : \A j \in at : i <= j
                 b == CHOOSE j \in a..Len(cp) :
                         /\ \A k \in a..j : k \in at
                         /\ (j + 1) \notin at
             IN  SubSeq(cp, a, b)

\* the season number n of the path RESULTADOS T<n>.xlsx, -1 where it raises
_season_to_results_path(season_str) ==
    IF FirstDigits(CodePoints(season_str)) = <<>> THEN -1
    ELSE IntOfDigits(FirstDigits(CodePoints(season_str)), 0)

\* xlsx.exists()
ResultsPathExists(res, n) == n \in DOMAIN res /\ res[n].exists

_cell_str(v) ==
    IF v.k = "ts" THEN IsoDate(v.n)
    ELSE IF v.k \in {"na", "none"} \/ (v.k = "num" /\ v.n = 0) THEN ""
    ELSE Strip(Str(v))

\* NFKD without the combining marks, on one code point of a Spanish letter
Unaccent(c) ==
    CASE c = 225 -> 97 [] c = 233 -> 101 [] c = 237 -> 105 [] c = 243 -> 111
      [] c = 250 -> 117 [] c = 241 -> 110
      [] c = 193 -> 65 [] c = 201 -> 69 [] c = 205 -> 73 [] c = 211 -> 79
      [] c = 218 -> 85 [] c = 209 -> 78
      [] OTHER -> c

\* re.sub(r"\s+", " ", s).strip(): runs of blanks become one, none at the ends
RECURSIVE Collapse(_, _)
Collapse(cp, out) ==
    IF cp = <<>> THEN (IF out # <<>> /\ out[Len(out)] = 32 THEN SubSeq(out, 1, Len(out) - 1)
                       ELSE out)
    ELSE IF Head(cp) = 32
    THEN (IF out = <<>> \/ out[Len(out)] = 32 THEN Collapse(Tail(cp), out)
          ELSE Collapse(Tail(cp), Append(out, 32)))
    ELSE Collapse(Tail(cp), Append(out, Head(cp)))

\* lower case, no diacritics, blanks collapsed; the result as code points
_norm_txt(s) ==
    Collapse(LowerCp([i \in 1..Len(CodePoints(s)) |-> Unaccent(CodePoints(s)[i])]), <<>>)

\* the ISO date of a text in one of the four formats, else its first 10 characters
sub_norm_date(s) ==
    IF \E d \in Days : s \in {IsoDate(d), IsoDate(d) \o " 00:00:00"}
    THEN IsoDate(CHOOSE d \in Days : s \in {IsoDate(d), IsoDate(d) \o " 00:00:00"})
    ELSE s

\* row r of the sheet is the record's match: date, division and players agree
RowIsMatch(ws, layout, r, record) ==
    LET vfecha == _cell_str(WsCell(ws, r, layout.FECHA))
        vdiv == _cell_str(WsCell(ws, r, layout.DIV))
        vj1 == _cell_str(WsCell(ws, r, layout.J1))
        vj2 == _cell_str(WsCell(ws, r, layout.J2))
    IN  /\ ~(vj1 = "" /\ vj2 = "")
        /\ sub_norm_date(vfecha) = sub_norm_date(record.date)
        /\ _norm_txt(vdiv) = _norm_txt(record.division)
        /\ _norm_txt(vj1) = _norm_txt(record.j1)
        /\ _norm_txt(vj2) = _norm_txt(record.j2)

\* mutant of TargetRow: the last matching row
TargetRow_Last(ws, record) ==
    LET layout == _infer_results_layout_openpyxl(ws)
        hits == {r \in 1..Len(ws) : RowIsMatch(ws, layout, r, record)}
    IN  IF hits = {} THEN 0 ELSE CHOOSE r \in hits : \A q \in hits : r >= q

\* the first matching row, 0 for None
TargetRow(ws, record) ==
    LET layout == _infer_results_layout_openpyxl(ws)
        hits == {r \in 1..Len(ws) : RowIsMatch(ws, layout, r, record)}
    IN  IF hits = {} THEN 0 ELSE CHOOSE r \in hits : \A q \in hits : r <= q

\* (a or None) written to a set cell
SetValue(a) == IF a = "" THEN NA ELSE Txt(a)

\* the sheet after the ten set cells of the row have been written
WriteSets(ws, target_row, record) ==
    LET first == _infer_results_layout_openpyxl(ws).SETS_START
        row == ws[target_row]
        cell(c) == IF c >= first /\ c <= first + 2 * NumSets - 1
                   THEN SetValue(record.sets[((c - first) \div 2) + 1][((c - first) % 2) + 1])
                   ELSE IF c <= Len(row) THEN row[c] ELSE NA
    IN  [ws EXCEPT ![target_row] =
            [c \in 1..Max(Len(row), first + 2 * NumSets - 1) |-> cell(c)]]

\* mutant of Moved: only the last record with the mid is moved
Moved_Last(pending, id) ==
    IF \E k \in 1..Len(pending) : pending[k].mid = id
    THEN <<pending[CHOOSE k \in 1..Len(pending) :
                      /\ pending[k].mid = id
                      /\ \A q \in (k + 1)..Len(pending) : pending[q].mid # id]>>
    ELSE <<>>

\* the records of the list with mid = id, and the others, in list order
RECURSIVE Moved(_, _)
Moved(pending, id) ==
    IF pending = <<>> THEN <<>>
    ELSE IF Head(pending).mid = id THEN <<Head(pending)>> \o Moved(Tail(pending), id)
    ELSE Moved(Tail(pending), id)
RECURSIVE Kept(_, _)
Kept(pending, id) ==
    IF pending = <<>> THEN <<>>
    ELSE IF Head(pending).mid = id THEN Kept(Tail(pending), id)
    ELSE <<Head(pending)>> \o Kept(Tail(pending), id)

\* mutant of Raised: the exception is swallowed and the approval goes on
Raised_Ignored(req, status) == [req EXCEPT !.pc = "load_approved"]

\* the request leaves admin_approve with an HTTPException of the status
Raised(req, status) == [req EXCEPT !.pc = "error", !.status = status]

(***************************************************************************)
(* SpecApprove: admin_approve requests running in the server's thread      *)
(* pool, over the two queue files and the results workbooks.  A request    *)
(* takes one step per file access; nothing orders the steps of two         *)
(* requests.                                                               *)
(***************************************************************************)
MaxRequests == 2  \* approvals in flight (SpecApprove)

NoSets == <<"", "">>
Record(mid, season, day, division, j1, j2, set1) ==
    [mid |-> mid, season |-> season, date |-> IsoDate(day), division |-> division,
     j1 |-> j1, j2 |-> j2, sets |-> <<set1, NoSets, NoSets, NoSets, NoSets>>]

RecordSeasons == {"Temporada 6", "Temporada 9", "Liga"}
RecordsA == {Record("m1", s, 1, "División 1", "ana", "bob", <<"2", "0">>) : s \in RecordSeasons}
RecordsB == {Record("m2", s, 2, "División 2", "Cara", "ana", <<"0", "2">>) : s \in RecordSeasons}
OldRecord == Record("m0", "Temporada 6", 3, "División 1", "Cara", "Bob", <<"2", "1">>)

\* a second submission of the first match, with another score
RecordA2 == Record("m1", "Temporada 6", 1, "División 1", "ana", "bob", <<"1", "2">>)

PendingLists ==
    {<<a, b>> : a \in RecordsA, b \in RecordsB} \cup {<<a>> : a \in RecordsA} \cup {<<>>}
        \cup {<<a, b, RecordA2>> : a \in RecordsA, b \in RecordsB}

\* a row of the sheet without scores
MatchRow(time, day, div, j1, j2) ==
    (IF time THEN <<DateCell(day), TimeCell(540), div>> ELSE <<DateCell(day), div>>)
        \o <<Txt(j1), Txt(j2)>> \o SetCells(<<>>)

\* both matches with the time column, the first match alone in the legacy
\* layout, both matches with a division number instead of the label
ApproveWorkbooks ==
    {NoResults,
     [exists |-> TRUE, twice |-> FALSE,
      rows |-> <<MatchRow(TRUE, 1, Txt("División 1"), "ana", "Bob"),
                 MatchRow(TRUE, 2, Txt("División 2"), "Cara", "ana")>>],
     [exists |-> TRUE, twice |-> FALSE,
      rows |-> <<MatchRow(FALSE, 1, Txt("División 1"), "ana", "Bob")>>],
     [exists |-> TRUE, twice |-> FALSE,
      rows |-> <<MatchRow(TRUE, 1, Num(2), "ana", "Bob"),
                 MatchRow(TRUE, 2, Num(4), "Cara", "ana")>>]}

RequestIds == {"m1", "m2", "m3"}

InitApprove ==
    /\ \E f \in ApproveWorkbooks :
          resultados = [n \in SeasonNumbers |-> IF n = 6 THEN f ELSE NoResults]
    /\ jugadores = [n \in SeasonNumbers |-> NoRoster]
    /\ _season_names = _discover(resultados)
    /\ _players_by_season = EmptyMemo
    /\ _results_by_season = EmptyMemo
    /\ resp = NoResp
    /\ PENDING_FILE \in PendingLists
    /\ APPROVED_FILE \in {<<>>, <<OldRecord>>}
    /\ requests = NoRequests

Same == UNCHANGED <<resp, jugadores, _season_names, _players_by_season, _results_by_season>>

\* GET /admin/approve?id=...: a thread of the pool takes the request
Approve(id) ==
    /\ Cardinality(DOMAIN requests) < MaxRequests
    /\ requests' = requests @@
          ((Cardinality(DOMAIN requests) + 1) :>
              [id |-> id, pc |-> "load_pending", keep |-> <<>>, moved |-> <<>>,
               n |-> 0, wb |-> <<>>, approved |-> <<>>, status |-> 0])
    /\ UNCHANGED <<PENDING_FILE, APPROVED_FILE, resultados>>
    /\ Same

\* pending = _load_json(PENDING_FILE) and the loop that splits it
LoadPending(r) ==
    /\ requests[r].pc = "load_pending"
    /\ requests' = [requests EXCEPT ![r] =
          [@ EXCEPT !.keep = Kept(PENDING_FILE, requests[r].id),
                    !.moved = Moved(PENDING_FILE, requests[r].id),
                    !.pc = IF Moved(PENDING_FILE, requests[r].id) # <<>>
                           THEN "load_workbook" ELSE "save_pending"]]
    /\ UNCHANGED <<PENDING_FILE, APPROVED_FILE, resultados>>
    /\ Same

\* _apply_to_excel(moved[-1]) up to load_workbook
LoadWorkbook(r) ==
    LET record == requests[r].moved[Len(requests[r].moved)]
        n == _season_to_results_path(record.season)
    IN  /\ requests[r].pc = "load_workbook"
        /\ requests' = [requests EXCEPT ![r] =
              IF n = -1 \/ ~ResultsPathExists(resultados, n) THEN Raised(@, 400)
              ELSE [@ EXCEPT !.n = n, !.wb = resultados[n].rows, !.pc = "write_cells"]]
        /\ UNCHANGED <<PENDING_FILE, APPROVED_FILE, resultados>>
        /\ Same

\* the search for the row and the writes to its set cells, in memory
WriteCells(r) ==
    LET record == requests[r].moved[Len(requests[r].moved)]
        target_row == TargetRow(requests[r].wb, record)
    IN  /\ requests[r].pc = "write_cells"
        /\ requests' = [requests EXCEPT ![r] =
              IF target_row = 0 THEN Raised(@, 400)
              ELSE [@ EXCEPT !.wb = WriteSets(requests[r].wb, target_row, record),
                             !.pc = "save_workbook"]]
        /\ UNCHANGED <<PENDING_FILE, APPROVED_FILE, resultados>>
        /\ Same

\* wb.save(str(xlsx)): the file is replaced by the request's copy; or the
\* write raises, with the file as it was or cut short
SaveWorkbook(r) ==
    /\ requests[r].pc = "save_workbook"
    /\ \/ /\ resultados' = [resultados EXCEPT ![requests[r].n].rows = requests[r].wb]
          /\ requests' = [requests EXCEPT ![r].pc = "load_approved"]
       \/ /\ resultados' \in {resultados, [resultados EXCEPT ![requests[r].n].rows = <<>>]}
          /\ requests' = [requests EXCEPT ![r] = Raised(@, 500)]
    /\ UNCHANGED <<PENDING_FILE, APPROVED_FILE>>
    /\ Same

\* approved = _load_json(APPROVED_FILE); approved.extend(moved)
LoadApproved(r) ==
    /\ requests[r].pc = "load_approved"
    /\ requests' = [requests EXCEPT ![r] =
          [@ EXCEPT !.approved = APPROVED_FILE \o requests[r].moved,
                    !.pc = "save_approved"]]
    /\ UNCHANGED <<PENDING_FILE, APPROVED_FILE, resultados>>
    /\ Same

\* _save_json(APPROVED_FILE, approved)
SaveApproved(r) ==
    /\ requests[r].pc = "save_approved"
    /\ APPROVED_FILE' = requests[r].approved
    /\ requests' = [requests EXCEPT ![r].pc = "save_pending"]
    /\ UNCHANGED <<PENDING_FILE, resultados>>
    /\ Same

\* _save_json(PENDING_FILE, keep) and the redirect
SavePending(r) ==
    /\ requests[r].pc = "save_pending"
    /\ PENDING_FILE' = requests[r].keep
    /\ requests' = [requests EXCEPT ![r] = [@ EXCEPT !.pc = "done", !.status = 302]]
    /\ UNCHANGED <<APPROVED_FILE, resultados>>
    /\ Same

NextApprove ==
    \/ \E id \in RequestIds : Approve(id)
    \/ \E r \in DOMAIN requests :
          \/ LoadPending(r)
          \/ LoadWorkbook(r)
          \/ WriteCells(r)
          \/ SaveWorkbook(r)
          \/ LoadApproved(r)
          \/ SaveApproved(r)
          \/ SavePending(r)

SpecApprove == InitApprove /\ [][NextApprove]_vars

(***************************************************************************)
(* Claims on approvals (SpecApprove)                                       *)
(***************************************************************************)
\* the record an approval applies to the workbook
Applied(req) == req.moved[Len(req.moved)]

\* the season number the three season texts of the records name, -1 for none
SeasonOfText(season) ==
    CASE season = "Temporada 6" -> 6 [] season = "Temporada 9" -> 9 [] OTHER -> -1

\* the row holds the record's match: its day, its division label and its two
\* players, whatever the case of the letters
HoldsMatch(row, record) ==
    LET shift == IF row[2].k = "time" THEN 1 ELSE 0
    IN  /\ row[1].k = "ts" /\ IsoDate(row[1].n) = record.date
        /\ row[2 + shift] = Txt(record.division)
        /\ Lower(row[3 + shift].s) = Lower(record.j1)
        /\ Lower(row[4 + shift].s) = Lower(record.j2)

\* the row holds the first set of the record in its first two set cells
HoldsScore(row, record) ==
    LET shift == IF row[2].k = "time" THEN 1 ELSE 0
    IN  /\ row[5 + shift] = Txt(record.sets[1][1])
        /\ row[6 + shift] = Txt(record.sets[1][2])

\* the season's sheet holds the record's match with the record's score
ScoreInSheet(record) ==
    /\ SeasonOfText(record.season) \in SeasonNumbers
    /\ \E i \in 1..Len(resultados[SeasonOfText(record.season)].rows) :
          /\ HoldsMatch(resultados[SeasonOfText(record.season)].rows[i], record)
          /\ HoldsScore(resultados[SeasonOfText(record.season)].rows[i], record)

\* C19: two admin_approve requests with different ids, each of which found its
\* record, whose steps interleave in any order, end as if run one after the
\* other: both records are in the approved list, neither is left in the
\* pending list, and both scores are in the results sheet.
C19_ConcurrentApprovals ==
    \A r1, r2 \in DOMAIN requests :
        (/\ requests[r1].id # requests[r2].id
         /\ requests[r1].pc = "done" /\ requests[r2].pc = "done"
         /\ requests[r1].moved # <<>> /\ requests[r2].moved # <<>>)
        => /\ Range(requests[r1].moved) \cup Range(requests[r2].moved)
                \subseteq Range(APPROVED_FILE)
           /\ \A k \in 1..Len(PENDING_FILE) :
                 PENDING_FILE[k].mid \notin {requests[r1].id, requests[r2].id}
           /\ ScoreInSheet(Applied(requests[r1]))
           /\ ScoreInSheet(Applied(requests[r2]))

\* _apply_to_excel is bound to fail at the request's next step: the season
\* names no workbook that exists, or the loaded sheet has no row of the match
ApplyFails(req) ==
    \/ /\ req.pc = "load_workbook"
       /\ \/ SeasonOfText(Applied(req).season) \notin SeasonNumbers
          \/ ~resultados[SeasonOfText(Applied(req).season)].exists
    \/ /\ req.pc = "write_cells"
       /\ \A i \in 1..Len(req.wb) : ~HoldsMatch(req.wb[i], Applied(req))

QueuesUnchanged == PENDING_FILE' = PENDING_FILE /\ APPROVED_FILE' = APPROVED_FILE

\* one step of request r
ApprovalStep(r) ==
    requests'[r] # requests[r] =>
        /\ ApplyFails(requests[r]) =>
              requests'[r].pc = "error" /\ requests'[r].status = 400
        /\ requests'[r].pc = "error" => requests'[r].status \in {400, 500}
        /\ requests[r].pc \in {"load_pending", "load_workbook", "write_cells",
                               "save_workbook"} => QueuesUnchanged
        /\ requests[r].pc # "error"

\* C20: when admin_approve has found a pending record and _apply_to_excel
\* fails (invalid season, missing workbook, no matching row, write error), the
\* request ends in an HTTP error, and no step of the request, up to and
\* including the failing one, changes the pending or the approved list; a
\* request that has ended in an error takes no further step.
C20_ApprovalFailure == [][\A r \in DOMAIN requests : ApprovalStep(r)]_vars

\* C20 witness: a request has ended in an HTTP error on a record it found, and
\* the record is still pending and not approved.
C20_Witness ==
    \E r \in DOMAIN requests :
        /\ requests[r].pc = "error"
        /\ requests[r].moved # <<>>
        /\ Applied(requests[r]) \in Range(PENDING_FILE)
        /\ Applied(requests[r]) \notin Range(APPROVED_FILE)

\* the records of a list with the mid, and those with another mid, in order
WithMid(list, id) == LET Is(x) == x.mid = id IN SelectSeq(list, Is)
WithoutMid(list, id) == LET IsNot(x) == x.mid # id IN SelectSeq(list, IsNot)

\* one request is in flight, alone
Alone == DOMAIN requests = {1} /\ DOMAIN requests' = {1} /\ requests'[1] # requests[1]

\* C21: an admin_approve(id) that runs alone and succeeds leaves the pending
\* list without the records whose mid is id, the others kept in order, the
\* approved list extended by the removed records in order, and in the sheet
\* the set scores of the last-submitted record with that mid; when no pending
\* record has the mid, pending, approved and the sheet are unchanged.
C21_SuccessfulApproval ==
    [][Alone =>
        LET req == requests[1]
            found == WithMid(PENDING_FILE, req.id)
        IN  /\ (req.pc = "save_pending") =>
                  PENDING_FILE' = WithoutMid(PENDING_FILE, req.id)
            /\ (req.pc = "save_approved") =>
                  /\ found # <<>>
                  /\ APPROVED_FILE' = APPROVED_FILE \o found
            /\ (req.pc = "save_workbook" /\ requests'[1].pc # "error") =>
                  /\ found # <<>>
                  /\ \E i \in 1..Len(resultados'[req.n].rows) :
                        /\ HoldsMatch(resultados'[req.n].rows[i], found[Len(found)])
                        /\ HoldsScore(resultados'[req.n].rows[i], found[Len(found)])
            /\ (found = <<>>) =>
                  UNCHANGED <<PENDING_FILE, APPROVED_FILE, resultados>>]_vars

\* C21 witness: an approval that ran alone over a pending list with two
\* submissions of its match: both are approved, in order, the other record is
\* all that is pending, and the sheet holds the score of the second one.
C21_Witness ==
    /\ DOMAIN requests = {1}
    /\ requests[1].pc = "done"
    /\ Len(requests[1].moved) = 2
    /\ SubSeq(APPROVED_FILE, Len(APPROVED_FILE) - 1, Len(APPROVED_FILE)) = requests[1].moved
    /\ Len(PENDING_FILE) = 1 /\ PENDING_FILE[1].mid # requests[1].id
    /\ ScoreInSheet(RecordA2)

(***************************************************************************)
(* The admin routes, one request at a time (SpecAdmin)                     *)
(***************************************************************************)
ADMIN_TOKEN == "devadmin"

\* the texts a request carries as token; "" is a token that is not sent
Tokens == {"", "devadmin", "wrong"}

\* mutant of _require_admin: every request passes
_require_admin_Open(query_token, header_token) == 0

\* token = query token or header token or ""; 401 when it is not ADMIN_TOKEN,
\* 0 when the request may go on
_require_admin(query_token, header_token) ==
    LET token == IF query_token # "" THEN query_token
                 ELSE IF header_token # "" THEN header_token ELSE ""
    IN  IF token # ADMIN_TOKEN THEN 401 ELSE 0

\* the answer of an admin route: the request and its status
AdminResp(op, id, query_token, header_token, status) ==
    [op |-> op, season |-> "", division |-> "",
     arg |-> <<id, query_token, header_token>>, out |-> status]

\* GET /admin/reject?id=...
admin_reject(id, query_token, header_token) ==
    /\ IF _require_admin(query_token, header_token) = 401
       THEN /\ resp' = AdminResp("admin_reject", id, query_token, header_token, 401)
            /\ UNCHANGED PENDING_FILE
       ELSE /\ PENDING_FILE' = Kept(PENDING_FILE, id)
            /\ resp' = AdminResp("admin_reject", id, query_token, header_token, 302)
    /\ UNCHANGED <<APPROVED_FILE, resultados, requests, jugadores, _season_names,
                   _players_by_season, _results_by_season>>

\* GET /admin/approve?id=..., from the token check to the redirect
admin_approve(id, query_token, header_token) ==
    LET moved == Moved(PENDING_FILE, id)
        keep == Kept(PENDING_FILE, id)
        record == moved[Len(moved)]
        n == _season_to_results_path(record.season)
        target_row == TargetRow(resultados[n].rows, record)
        Answer(status) ==
            resp' = AdminResp("admin_approve", id, query_token, header_token, status)
    IN  /\ IF _require_admin(query_token, header_token) = 401
           THEN Answer(401) /\ UNCHANGED <<PENDING_FILE, APPROVED_FILE, resultados>>
           ELSE IF moved = <<>>
           THEN Answer(302) /\ PENDING_FILE' = keep /\ UNCHANGED <<APPROVED_FILE, resultados>>
           ELSE IF n = -1 \/ ~ResultsPathExists(resultados, n)
           THEN Answer(400) /\ UNCHANGED <<PENDING_FILE, APPROVED_FILE, resultados>>
           ELSE IF target_row = 0
           THEN Answer(400) /\ UNCHANGED <<PENDING_FILE, APPROVED_FILE, resultados>>
           ELSE \/ /\ resultados' = [resultados EXCEPT
                                        ![n].rows = WriteSets(@, target_row, record)]
                   /\ APPROVED_FILE' = APPROVED_FILE \o moved
                   /\ PENDING_FILE' = keep
                   /\ Answer(302)
                \/ /\ resultados' \in {resultados, [resultados EXCEPT ![n].rows = <<>>]}
                   /\ UNCHANGED <<PENDING_FILE, APPROVED_FILE>>
                   /\ Answer(500)
        /\ UNCHANGED <<requests, jugadores, _season_names, _players_by_season,
                       _results_by_season>>

NextAdmin ==
    \E id \in RequestIds, query_token \in Tokens, header_token \in Tokens :
        \/ admin_reject(id, query_token, header_token)
        \/ admin_approve(id, query_token, header_token)

\* a sheet that holds the first match twice, the first time with the scores
\* of two sets, after a played row of the other match
PlayedWorkbook ==
    [exists |-> TRUE, twice |-> FALSE,
     rows |-> <<<<DateCell(2), TimeCell(540), Txt("División 2"), Txt("Cara"), Txt("ana")>>
                    \o SetCells(<<<<Num(6), Num(4)>>>>),
                <<DateCell(1), TimeCell(540), Txt("División 1"), Txt("ana"), Txt("Bob")>>
                    \o SetCells(<<<<Num(6), Num(0)>>, <<Num(4), Num(2)>>>>),
                MatchRow(TRUE, 1, Txt("División 1"), "ana", "Bob")>>]

InitAdmin ==
    /\ \E f \in ApproveWorkbooks \cup {PlayedWorkbook} :
          resultados = [n \in SeasonNumbers |-> IF n = 6 THEN f ELSE NoResults]
    /\ jugadores = [n \in SeasonNumbers |-> NoRoster]
    /\ _season_names = _discover(resultados)
    /\ _players_by_season = EmptyMemo
    /\ _results_by_season = EmptyMemo
    /\ resp = NoResp
    /\ PENDING_FILE \in PendingLists
    /\ APPROVED_FILE \in {<<>>, <<OldRecord>>}
    /\ requests = NoRequests

SpecAdmin == InitAdmin /\ [][NextAdmin]_vars

\* the tokens the answered request sent
SentTokens == {resp'.arg[2], resp'.arg[3]} \ {""}

\* C22: admin_reject(id) with a valid admin token removes from the pending list
\* exactly the records whose mid is id, keeps the others in order and leaves
\* the approved list and the sheets unchanged; admin_reject and admin_approve
\* with no token or a wrong one answer 401 and change nothing.
C22_Rejection ==
    [][/\ (resp'.op = "admin_reject" /\ SentTokens = {ADMIN_TOKEN}) =>
             /\ resp'.out = 302
             /\ PENDING_FILE' = WithoutMid(PENDING_FILE, resp'.arg[1])
             /\ UNCHANGED <<APPROVED_FILE, resultados>>
       /\ (resp'.op \in {"admin_reject", "admin_approve"} /\ ADMIN_TOKEN \notin SentTokens) =>
             /\ resp'.out = 401
             /\ UNCHANGED <<PENDING_FILE, APPROVED_FILE, resultados>>]_vars

\* C22 witness: a rejection of m1 with the admin token was answered, the
\* submission of m2 is all that is pending and nothing was ever approved.
C22_Witness ==
    /\ resp.op = "admin_reject" /\ resp.out = 302 /\ resp.arg[1] = "m1"
    /\ Len(PENDING_FILE) = 1 /\ PENDING_FILE[1].mid = "m2"
    /\ APPROVED_FILE = <<>>

(***************************************************************************)
(* Signed links and the intake of results (SpecSubmit)                     *)
(***************************************************************************)
SUBMIT_SECRET == "devsecret"

FIELD_ORDER == <<"mid", "season", "date", "division", "j1", "j2">>

\* the code points of the six field names
KeyCp(k) ==
    CASE k = "mid" -> <<109, 105, 100>>
      [] k = "season" -> <<115, 101, 97, 115, 111, 110>>
      [] k = "date" -> <<100, 97, 116, 101>>
      [] k = "division" -> <<100, 105, 118, 105, 115, 105, 111, 110>>
      [] k = "j1" -> <<106, 49>>
      [] k = "j2" -> <<106, 50>>

\* an uppercase hexadecimal digit, and the digit's value (-1 for none)
HexDigit(n) == IF n < 10 THEN 48 + n ELSE 55 + n
HexValue(c) ==
    IF c >= 48 /\ c <= 57 THEN c - 48
    ELSE IF c >= 65 /\ c <= 70 THEN c - 55
    ELSE IF c >= 97 /\ c <= 102 THEN c - 87
    ELSE -1

PercentByte(b) == <<37, HexDigit(b \div 16), HexDigit(b % 16)>>

\* the characters quote_plus leaves as they are: letters, digits and _ . - ~
IsSafeCp(c) ==
    \/ c >= 48 /\ c <= 57
    \/ c >= 65 /\ c <= 90
    \/ c >= 97 /\ c <= 122
    \/ c \in {95, 46, 45, 126}

\* urllib.parse.quote_plus: a space becomes +, every other unsafe character
\* the %XX of its UTF-8 bytes (code points below 2048)
RECURSIVE quote_plus(_)
quote_plus(cp) ==
    IF cp = <<>> THEN <<>>
    ELSE LET c == Head(cp)
             enc == IF IsSafeCp(c) THEN <<c>>
                    ELSE IF c = 32 THEN <<43>>
                    ELSE IF c < 128 THEN PercentByte(c)
                    ELSE PercentByte(192 + (c \div 64)) \o PercentByte(128 + (c % 64))
         IN  enc \o quote_plus(Tail(cp))

\* the byte a %XX at the head of the text stands for, -1 when there is none
ByteAt(cp) ==
    IF Len(cp) >= 3 /\ cp[1] = 37 /\ HexValue(cp[2]) >= 0 /\ HexValue(cp[3]) >= 0
    THEN 16 * HexValue(cp[2]) + HexValue(cp[3])
    ELSE -1

\* urllib.parse.unquote_plus: + becomes a space, %XX sequences are decoded as
\* UTF-8 with U+FFFD for a byte that is not part of a character
RECURSIVE unquote_plus(_)
unquote_plus(cp) ==
    IF cp = <<>> THEN <<>>
    ELSE IF Head(cp) = 43 THEN <<32>> \o unquote_plus(Tail(cp))
    ELSE IF ByteAt(cp) = -1 THEN <<Head(cp)>> \o unquote_plus(Tail(cp))
    ELSE IF ByteAt(cp) < 128 THEN <<ByteAt(cp)>> \o unquote_plus(SubSeq(cp, 4, Len(cp)))
    ELSE IF /\ ByteAt(cp) >= 194 /\ ByteAt(cp) <= 223
            /\ ByteAt(SubSeq(cp, 4, Len(cp))) >= 128
            /\ ByteAt(SubSeq(cp, 4, Len(cp))) <= 191
    THEN <<64 * (ByteAt(cp) - 192) + ByteAt(SubSeq(cp, 4, Len(cp))) - 128>>
            \o unquote_plus(SubSeq(cp, 7, Len(cp)))
    ELSE <<65533>> \o unquote_plus(SubSeq(cp, 4, Len(cp)))

\* "&".join of k=quote_plus(params[k]) for the six fields in FIELD_ORDER
RECURSIVE CanonicalFrom(_, _)
CanonicalFrom(params, i) ==
    KeyCp(FIELD_ORDER[i]) \o <<61>> \o quote_plus(CodePoints(params[FIELD_ORDER[i]]))
        \o (IF i = Len(FIELD_ORDER) THEN <<>> ELSE <<38>> \o CanonicalFrom(params, i + 1))

\* mutant of _canonical_query: the two player names are left out
_canonical_query_NoNames(params) ==
    KeyCp("mid") \o <<61>> \o quote_plus(CodePoints(params.mid)) \o <<38>>
        \o KeyCp("season") \o <<61>> \o quote_plus(CodePoints(params.season)) \o <<38>>
        \o KeyCp("date") \o <<61>> \o quote_plus(CodePoints(params.date)) \o <<38>>
        \o KeyCp("division") \o <<61>> \o quote_plus(CodePoints(params.division))

_canonical_query(params) == CanonicalFrom(params, 1)

\* hmac.new(key, msg, sha256).hexdigest(): the digest stands for the key and
\* the message it was computed from, two digests being equal only when both
\* are; "" is the empty sequence
Hmac(key, msg) == <<"hmac-sha256", key, msg>>

_make_sig(params) == Hmac(SUBMIT_SECRET, _canonical_query(params))

\* 400 when the signature is not the expected one, 0 when it is
_verify_sig(params, sig) == IF _make_sig(params) # sig THEN 400 ELSE 0

\* the six fields of a match, with names a query string has to escape
BaseFields ==
    [mid |-> "m1", season |-> "Temporada 6", date |-> IsoDate(1),
     division |-> "División 1", j1 |-> "A+B", j2 |-> "bob"]

FieldTuples ==
    {BaseFields,
     [BaseFields EXCEPT !.mid = "m2"],
     [BaseFields EXCEPT !.season = "Temporada 9"],
     [BaseFields EXCEPT !.date = IsoDate(2)],
     [BaseFields EXCEPT !.division = "División 2"],
     [BaseFields EXCEPT !.j1 = "A B"],
     [BaseFields EXCEPT !.j1 = "ana"],
     [BaseFields EXCEPT !.j2 = "Cara"]}

\* the texts of the fields, and the text a sequence of code points spells
FieldTexts == {f[FIELD_ORDER[i]] : f \in FieldTuples, i \in 1..Len(FIELD_ORDER)}
TextOf(cp) ==
    IF \E s \in FieldTexts : CodePoints(s) = cp
    THEN CHOOSE s \in FieldTexts : CodePoints(s) = cp
    ELSE "?"

\* build_submit_link: the path, the canonical query and the sig parameter
\* that follows it
build_submit_link(fields) ==
    [path |-> "/submit", query |-> _canonical_query(fields), sig |-> _make_sig(fields)]

\* the value of the key in a query string, as the framework hands it to the
\* route: the text after k= of the first part that starts so, unquoted
QueryValue(query, k) ==
    LET parts == SplitCp(query, 38, <<>>)
        Is(i) == /\ Len(parts[i]) > Len(KeyCp(k))
                 /\ SubSeq(parts[i], 1, Len(KeyCp(k)) + 1) = KeyCp(k) \o <<61>>
    IN  IF \E i \in 1..Len(parts) : Is(i)
        THEN LET i == CHOOSE i \in 1..Len(parts) : Is(i) /\ \A q \in 1..(i - 1) : ~Is(q)
             IN  TextOf(unquote_plus(SubSeq(parts[i], Len(KeyCp(k)) + 2, Len(parts[i]))))
        ELSE ""

\* a or b
Or(a, b) == IF a # "" THEN a ELSE b

\* the requests: a form with the six fields under their names, or under the
\* legacy names id, fecha and div, a signature and the first set
Form(fields, legacy, sig) ==
    [mid |-> IF legacy THEN "" ELSE fields.mid, id |-> IF legacy THEN fields.mid ELSE "",
     season |-> fields.season,
     date |-> IF legacy THEN "" ELSE fields.date, fecha |-> IF legacy THEN fields.date ELSE "",
     division |-> IF legacy THEN "" ELSE fields.division,
     div |-> IF legacy THEN fields.division ELSE "",
     j1 |-> fields.j1, j2 |-> fields.j2, sig |-> sig, s1 |-> <<"2", "0">>]

\* no signature, the signature of the link of the base match, the one of the
\* link of the form's own match, and one computed with a guessed secret
Forms ==
    {Form(f, legacy, sig) :
        f \in FieldTuples, legacy \in BOOLEAN,
        sig \in {<<>>, build_submit_link(BaseFields).sig}}
    \cup {Form(f, FALSE, Hmac("guess", _canonical_query(f))) : f \in FieldTuples}
    \cup {Form(f, legacy, build_submit_link(f).sig) : f \in {BaseFields, [BaseFields EXCEPT !.j2 = "Cara"]}, legacy \in BOOLEAN}

MaxPending == 2

InitSubmit ==
    /\ resultados = [n \in SeasonNumbers |-> NoResults]
    /\ jugadores = [n \in SeasonNumbers |-> NoRoster]
    /\ _season_names = <<>>
    /\ _players_by_season = EmptyMemo
    /\ _results_by_season = EmptyMemo
    /\ resp = NoResp
    /\ PENDING_FILE \in {<<>>, <<OldRecord>>}
    /\ APPROVED_FILE = <<>>
    /\ requests = NoRequests

SameSubmit ==
    UNCHANGED <<resultados, jugadores, _season_names, _players_by_season,
                _results_by_season, APPROVED_FILE, requests>>

\* the record of a form and the answer to it
SubmitRecord(params, form) ==
    [mid |-> params.mid, season |-> params.season, date |-> params.date,
     division |-> params.division, j1 |-> params.j1, j2 |-> params.j2,
     sets |-> <<form.s1, NoSets, NoSets, NoSets, NoSets>>]

SubmitResp(op, form, status) ==
    [op |-> op, season |-> "", division |-> "", arg |-> form, out |-> status]

\* the bot asks for the link of a match
BuildSubmitLink(fields) ==
    /\ resp' = [op |-> "build_submit_link", season |-> "", division |-> "",
                arg |-> fields, out |-> build_submit_link(fields)]
    /\ UNCHANGED PENDING_FILE
    /\ SameSubmit

\* GET /submit with the query of the link the bot was given
submit_get ==
    /\ resp.op = "build_submit_link"
    /\ LET link == resp.out
           params == [k \in {"mid", "season", "date", "division", "j1", "j2"} |->
                         QueryValue(link.query, k)]
           status == IF link.sig # <<>> /\ _verify_sig(params, link.sig) = 400
                     THEN 400 ELSE 200
       IN  resp' = SubmitResp("submit_get", Form(params, FALSE, link.sig), status)
    /\ UNCHANGED PENDING_FILE
    /\ SameSubmit

\* the check of the signature and the append both POST routes end with
Intake(op, params, form) ==
    IF form.sig # <<>> /\ _verify_sig(params, form.sig) = 400
    THEN resp' = SubmitResp(op, form, 400) /\ UNCHANGED PENDING_FILE
    ELSE /\ PENDING_FILE' = Append(PENDING_FILE, SubmitRecord(params, form))
         /\ resp' = SubmitResp(op, form, 200)

\* POST /submit: the six fields are required form fields (422 without them)
submit_post(form) ==
    /\ Len(PENDING_FILE) < MaxPending
    /\ LET params == [mid |-> form.mid, season |-> form.season, date |-> form.date,
                      division |-> form.division, j1 |-> form.j1, j2 |-> form.j2]
       IN  IF \E k \in DOMAIN params : params[k] = ""
           THEN resp' = SubmitResp("submit_post", form, 422) /\ UNCHANGED PENDING_FILE
           ELSE Intake("submit_post", params, form)
    /\ SameSubmit

\* POST /submit-result: the fields under either of their names
submit_result_post_legacy(form) ==
    /\ Len(PENDING_FILE) < MaxPending
    /\ LET params == [mid |-> Or(form.mid, form.id), season |-> form.season,
                      date |-> Or(form.date, form.fecha),
                      division |-> Or(form.division, form.div),
                      j1 |-> form.j1, j2 |-> form.j2]
       IN  Intake("submit_result_post_legacy", params, form)
    /\ SameSubmit

NextSubmit ==
    \/ \E fields \in FieldTuples : BuildSubmitLink(fields)
    \/ submit_get
    \/ \E form \in Forms : submit_post(form)
    \/ \E form \in Forms : submit_result_post_legacy(form)

SpecSubmit == InitSubmit /\ [][NextSubmit]_vars

\* the six fields a request carries as its route reads them: /submit by
\* their names, /submit-result under either of their names
Carried(op, form) ==
    IF op = "submit_result_post_legacy"
    THEN [mid |-> Or(form.mid, form.id), season |-> form.season,
          date |-> Or(form.date, form.fecha), division |-> Or(form.division, form.div),
          j1 |-> form.j1, j2 |-> form.j2]
    ELSE [mid |-> form.mid, season |-> form.season, date |-> form.date,
          division |-> form.division, j1 |-> form.j1, j2 |-> form.j2]

\* the request has all six fields
Complete(op, form) == \A k \in DOMAIN Carried(op, form) : Carried(op, form)[k] # ""

PostOps == {"submit_post", "submit_result_post_legacy"}

\* the links of the matches: the six values and the signature of their link
Links == {[fields |-> f, sig |-> build_submit_link(f).sig] : f \in FieldTuples}

\* C23: the link build_submit_link produces for six values passes _verify_sig
\* for those six values when it is followed, and a POST request that carries
\* the signature of a link with any of the six fields changed is answered
\* 400 and appends nothing to the pending list.
C23_LinkSignature ==
    [][/\ (resp.op = "build_submit_link" /\ resp'.op = "submit_get") =>
             /\ Carried(resp'.op, resp'.arg) = resp.arg
             /\ _verify_sig(resp.arg, resp.out.sig) = 0
             /\ resp'.out = 200
       /\ \A link \in Links :
             (/\ resp'.op \in PostOps
              /\ resp'.arg.sig = link.sig
              /\ Complete(resp'.op, resp'.arg)
              /\ Carried(resp'.op, resp'.arg) # link.fields)
             => resp'.out = 400 /\ PENDING_FILE' = PENDING_FILE]_vars

\* C23 witness: a POST that carried the signature of the base match's link
\* with another second player was answered 400.
C23_Witness ==
    /\ resp.op = "submit_post" /\ resp.out = 400
    /\ resp.arg.sig = build_submit_link(BaseFields).sig
    /\ Carried(resp.op, resp.arg) = [BaseFields EXCEPT !.j2 = "Cara"]

\* C24: after any sequence of POST /submit and POST /submit-result requests,
\* every record of the pending list comes from a request whose signature was
\* valid for its six fields, and a request with no signature or an empty one
\* adds no record.
C24_SignedIntakeOnly ==
    [][(resp'.op \in PostOps) =>
          /\ (PENDING_FILE' # PENDING_FILE) =>
                resp'.arg.sig = Hmac(SUBMIT_SECRET, _canonical_query(Carried(resp'.op, resp'.arg)))
          /\ (resp'.arg.sig = <<>>) => PENDING_FILE' = PENDING_FILE]_vars

\* C25: the sheet update of an approval that succeeds writes only the ten set
\* cells of the first row that holds the record's date, division and two
\* players in the record's order: every other row, every other cell of that
\* row and every other sheet are unchanged, and a set slot the record leaves
\* empty is an empty cell afterwards.
C25_SheetUpdateFrame ==
    [][(/\ resp'.op = "admin_approve" /\ resp'.out = 302
        /\ WithMid(PENDING_FILE, resp'.arg[1]) # <<>>) =>
          LET found == WithMid(PENDING_FILE, resp'.arg[1])
              record == found[Len(found)]
              n == SeasonOfText(record.season)
              before == resultados[n].rows
              after == resultados'[n].rows
              hits == {i \in 1..Len(before) : HoldsMatch(before[i], record)}
              target == CHOOSE i \in hits : \A q \in hits : i <= q
              first == IF before[target][2].k = "time" THEN 6 ELSE 5
              sets == first..(first + 9)
          IN  /\ hits # {}
              /\ \A m \in SeasonNumbers \ {n} : resultados'[m] = resultados[m]
              /\ resultados'[n].exists = resultados[n].exists
              /\ Len(after) = Len(before)
              /\ \A i \in (1..Len(before)) \ {target} : after[i] = before[i]
              /\ DOMAIN after[target] = DOMAIN before[target]
              /\ \A c \in (DOMAIN before[target]) \ sets : after[target][c] = before[target][c]
              /\ \A s \in 1..5, p \in 1..2 :
                    after[target][first + 2 * (s - 1) + (p - 1)] =
                        IF record.sets[s][p] = "" THEN NA ELSE Txt(record.sets[s][p])]_vars

\* C25 witness: an approval wrote the score of the first match into the first
\* of the two rows that hold it, emptied the second set that row had, and
\* left the second of the two rows without scores.
C25_Witness ==
    /\ resp.op = "admin_approve" /\ resp.out = 302 /\ resp.arg[1] = "m1"
    /\ Len(resultados[6].rows) = 3
    /\ resultados[6].rows[2][6] \in {Txt("2"), Txt("1")}
    /\ resultados[6].rows[2][8] = NA
    /\ resultados[6].rows[3][6] = NA
    /\ resultados[6].rows[1][6] = Num(6)

(***************************************************************************)
(* Claims on the tables of all divisions of a season (Spec)                *)
(***************************************************************************)
\* the divisions of the answered season whose table counts row i of the
\* sheet: the table of the row alone has a player with a match played
CountedIn(i) ==
    {d \in RequestDivisions :
        /\ HasDiv(RespMapping, d)
        /\ \E k \in 1..Len(season_division_table(RespMapping, <<RespDf[i]>>, d)) :
              season_division_table(RespMapping, <<RespDf[i]>>, d)[k].PJ > 0}

\* the player is on the roster of some division of the answered season
Listed(p) ==
    \E d \in RequestDivisions : HasDiv(RespMapping, d) /\ p \in Range(PlayersOf(RespMapping, d))

\* C26: every played match between two players of the season's rosters
\* contributes to the standings of exactly one division: a match between a
\* player of one division and a player of another is not counted in the
\* tables of both.
C26_OneDivisionPerMatch ==
    IsTable =>
        \A i \in 1..Len(RespDf) :
            (RowPlayed(RespDf, i) /\ Listed(RowJ1(RespDf, i)) /\ Listed(RowJ2(RespDf, i)))
                => Cardinality(CountedIn(i)) = 1

(***************************************************************************)
(* Claims on the two layout inferences (SpecLayout)                        *)
(***************************************************************************)
\* C27: for every results sheet the layout the standings reader infers and
\* the layout the approval writer infers name the same columns (the reader
\* counts them from 0, the writer from 1), so the set cells an approval
\* writes are the ones the standings are computed from.
C27_LayoutAgreement ==
    resp.op = "_infer_results_layout_openpyxl" =>
        /\ resp.out.writer.FECHA = resp.out.reader.date + 1
        /\ resp.out.writer.DIV = resp.out.reader.div + 1
        /\ resp.out.writer.J1 = resp.out.reader.j1 + 1
        /\ resp.out.writer.J2 = resp.out.reader.j2 + 1
        /\ resp.out.writer.SETS_START = resp.out.reader.sets_start + 1

(***************************************************************************)
(* SpecTables: the tables of a season whose roster may repeat a name, in   *)
(* one column or in two.                                                   *)
(***************************************************************************)
MaxRowsTables == 2  \* rows of a results sheet (SpecTables)

\* the first column lists each name once or lists ana twice; the second is
\* empty, lists another player or lists ana again
TableRosters ==
    {RosterFile(c1, c2) :
        c1 \in {<<"ana", "Bob">>, <<"ana", "Bob", "ana">>, <<"Cara", "ana", "Bob">>},
        c2 \in {<<>>, <<"Cara">>, <<"ana">>}}

InitTables ==
    /\ \E f \in {NoResults} \cup ResultsFiles(ScoreLines, MaxRowsTables) :
          resultados = [n \in SeasonNumbers |-> IF n = 6 THEN f ELSE NoResults]
    /\ \E f \in TableRosters :
          jugadores = [n \in SeasonNumbers |-> IF n = 6 THEN f ELSE NoRoster]
    /\ InitObject

NextTables ==
    \/ \E l \in RequestSeasons, d \in RequestDivisions : SeasonDivisionTable(l, d)
    \/ GeneralRows

SpecTables == InitTables /\ [][NextTables]_vars

\* the sum of a column of the answered table
TableSum(col) ==
    SumOver([k \in 1..Len(resp.out) |-> resp.out[k][col]], 1..Len(resp.out))

\* the played matches the answered table counts
CountedMatches == PlayedOf(RespDf, RespPlayers)

\* C28: in a division table where both players of every counted match belong
\* to the division's roster, dsets sums to 0 over the rows, dpuntos sums to 0,
\* V sums to at most the number of played matches, PJ sums to twice that
\* number, and every row has 0 <= V <= PJ.
C28_ZeroSum ==
    (/\ IsTable
     /\ \A i \in CountedMatches :
           RowJ1(RespDf, i) \in RespPlayers /\ RowJ2(RespDf, i) \in RespPlayers)
    => /\ TableSum("dsets") = 0
       /\ TableSum("dpuntos") = 0
       /\ TableSum("V") <= Cardinality(CountedMatches)
       /\ TableSum("PJ") = 2 * Cardinality(CountedMatches)
       /\ \A k \in 1..Len(resp.out) : 0 <= resp.out[k].V /\ resp.out[k].V <= resp.out[k].PJ

\* the divisions of the answered season whose roster lists the name
DivisionsOf(name) ==
    {d \in RequestDivisions : HasDiv(RespMapping, d) /\ name \in Range(PlayersOf(RespMapping, d))}

\* C29: within a season each player name is in at most one division and at
\* most once in that division's table, whatever the roster table holds, and
\* general_rows adds at most one award per player and season.
C29_OneRowPerPlayer ==
    /\ IsTable =>
          /\ \A p \in RespPlayers : Cardinality(DivisionsOf(p)) <= 1
          /\ \A k, m \in 1..Len(resp.out) :
                resp.out[k].jugador = resp.out[m].jugador => k = m
    /\ IsGeneral =>
          \A e, f \in TableEntries :
              (e.season = f.season /\ e.row.jugador = f.row.jugador) => e = f

(***************************************************************************)
(* Claims on played and unplayed rows (SpecMatches)                        *)
(***************************************************************************)
\* the rows of the table with a date up to the day asked for and both names,
\* no other row holding the same date and names
FullRows(df, today) ==
    {i \in 1..Len(df) :
        LET layout == _infer_layout(df)
        IN  /\ RowDay(df[i], layout) # NoDate /\ RowDay(df[i], layout) <= today
            /\ RowNames(df[i], layout)[1] # "" /\ RowNames(df[i], layout)[2] # ""
            /\ \A q \in 1..Len(df) :
                  (/\ RowDay(df[q], layout) = RowDay(df[i], layout)
                   /\ RowNames(df[q], layout) = RowNames(df[i], layout)) => q = i}

\* C30: every results row with a date and both player names is either counted
\* as played by the standings (_played_row) or reported as unplayed by the
\* notification readers of bot_matches and bot_matchesT6, never both and
\* never neither; a row whose only scores are one-sided pairs is reported.
C30_PlayedUnplayed ==
    (resp.op \in {"run_once", "_collect_matches"} /\ ~resp.out.raised) =>
        \A i \in FullRows(TableRead, resp.arg) :
            _played_row(TableRead[i], _infer_layout(TableRead).sets_start)
                # (\E m \in Returned : ItemOfRow(m, TableRead, i))

=============================================================================
